---- MODULE Spec2Model ----
(***************************************************************************)
(* State-machine model of the UX agent backends:                           *)
(*   - the Ollama backend (ollama_llm_backend.py): conversation store,     *)
(*     chat turn, completion call and keyword fallback;                    *)
(*   - the database-backed application (app/api/routes): users, payments,  *)
(*     conversations and the agent service.                                *)
(* Texts are TLA+ strings; TLC treats a string as a sequence of            *)
(* characters, so substring tests and lower-casing are computed.           *)
(***************************************************************************)
EXTENDS Integers, Sequences, FiniteSets, TLC

VARIABLES
    started,               \* startup_event has run
    ollama_available,      \* ollama_llm_backend.ollama_available
    chat_sessions,         \* ollama_llm_backend.chat_sessions: id -> list of messages
    next_conversation_id,  \* ollama_llm_backend.next_conversation_id
    clock,                 \* datetime.now(), one tick per stored message
    turn,                  \* the chat request being handled and its position
    reply,                 \* the last HTTP reply sent to a client
    appended,              \* history: id -> every message appended since creation or last clear
    users,                 \* table users: id -> row
    payments,              \* table payments: list of rows
    conversations,         \* table conversations: list of rows
    stripe_intents,        \* number of payment intents the processor has created
    fn,                    \* inputs and results of the pure lookups
    pending,               \* chat requests received by the server and not yet handled
    users_db,              \* users_db of llm_backend and of simple_backend: id -> user
    current_user_id,       \* current_user_id of llm_backend and of simple_backend
    conversations_db       \* conversations_db of llm_backend and of simple_backend

vars == <<started, ollama_available, chat_sessions, next_conversation_id, clock,
          turn, reply, appended, users, payments, conversations, stripe_intents, fn,
          pending, users_db, current_user_id, conversations_db>>

ollamaVars == <<started, ollama_available, chat_sessions, next_conversation_id, clock,
                turn, appended, pending>>
appVars == <<users, payments, conversations, stripe_intents>>
memVars == <<users_db, current_user_id, conversations_db>>

(***************************************************************************)
(* Bounds of the model.                                                    *)
(***************************************************************************)
MaxClock == 4          \* messages stored in a run of the chat specification
MaxStoreClock == 22    \* messages stored in a run of the store specification

(***************************************************************************)
(* Text helpers: str.lower(), the `in` substring test, str.title().        *)
(***************************************************************************)
UpperCase == "ABCDEFGHIJKLMNOPQRSTUVWXYZ"
LowerCase == "abcdefghijklmnopqrstuvwxyz"

lower_char(c) ==
    IF \E i \in 1..Len(UpperCase) : SubSeq(UpperCase, i, i) = c
    THEN LET i == CHOOSE j \in 1..Len(UpperCase) : SubSeq(UpperCase, j, j) = c
         IN  SubSeq(LowerCase, i, i)
    ELSE c

\* the lower-cased characters of s from position i on
RECURSIVE lower_from(_, _)
lower_from(s, i) ==
    IF i > Len(s) THEN ""
    ELSE lower_char(SubSeq(s, i, i)) \o lower_from(s, i + 1)

\* str.lower()
lower(s) == lower_from(s, 1)

\* the element of a one-element set
Only(S) == CHOOSE x \in S : TRUE

\* Python `k in s` for strings
contains(k, s) ==
    \E i \in 1..(Len(s) - Len(k) + 1) : SubSeq(s, i, i + Len(k) - 1) = k

\* Python any(keyword in s for keyword in ks), ks a list
any_keyword_in(ks, s) ==
    \E n \in 1..Len(ks) : contains(ks[n], s)

\* str.title() on the two role names
title(role) ==
    CASE role = "user" -> "User"
      [] role = "assistant" -> "Assistant"
      [] OTHER -> role

\* Optional[int]: None is the empty tuple, a value n is <<n>>
None == <<>>

\* list[-n:]
LastN(s, n) ==
    IF Len(s) <= n THEN s ELSE SubSeq(s, Len(s) - n + 1, Len(s))

(***************************************************************************)
(* Agent registry and canned responses of the Ollama backend.  The static  *)
(* texts are represented by their first line.                              *)
(***************************************************************************)
AgentIds == {"workflow", "thinking", "writing", "triage"}

AGENT_CONFIGS ==
    [a \in AgentIds |->
        CASE a = "workflow" -> "You are a UX Workflow Specialist with deep expertise in:"
          [] a = "thinking" -> "You are a UX Strategic Thinker with expertise in:"
          [] a = "writing"  -> "**CRITICAL JOB STORY INSTRUCTIONS:**"
          [] a = "triage"   -> "You are a UX Request Triage agent that provides direct, helpful answers to UX questions."]

MOCK_RESPONSES ==
    [a \in AgentIds |->
        CASE a = "workflow" -> "I'm your UX Workflow Specialist!"
          [] a = "thinking" -> "I'm your UX Strategic Thinker!"
          [] a = "writing"  -> "I'm your UX Writing Expert!"
          [] a = "triage"   -> "I'm here to help with your UX questions!"]

\* dict.get(key, default)
dict_get(d, key, default) ==
    IF key \in DOMAIN d THEN d[key] ELSE default

JobStoryKeywords  == <<"job story", "user story", "story writing">>
StrategyKeywords  == <<"align", "strategy", "business goals", "roadmap">>
UsabilityKeywords == <<"usability test", "user test", "testing", "test plan">>
UserFlowKeywords  == <<"user flow", "flow", "user journey", "journey map">>
AnalyticsKeywords == <<"analytics", "metrics", "data", "measurement">>
WorkflowKeywords  == <<"workflow", "process", "methodology", "framework">>
ResearchKeywords  == <<"user research", "research methods", "b2b research">>

JobStoryResponse  == "**Job Story Writing Guide**"
StrategyResponse  == "**UX Strategy Alignment Framework**"
UsabilityResponse == "**Comprehensive Usability Testing Framework**"
UserFlowResponse  == "**User Flow Mapping Guide**"
AnalyticsResponse == "**Product Analytics Framework**"
WorkflowResponse  == "**Comprehensive UX Workflow Framework**"
ResearchResponse  == "**User Research Methods for B2B Contexts**"

\* MOCK_RESPONSES.get(agent_type, MOCK_RESPONSES["triage"])
mock_response(agent_type) ==
    dict_get(MOCK_RESPONSES, agent_type, MOCK_RESPONSES["triage"])

\* agent_config defaulting to the workflow persona
agent_config_workflow(agent_type) ==
    dict_get(AGENT_CONFIGS, agent_type, AGENT_CONFIGS["workflow"])

\* AGENT_CONFIGS.get(agent_type, AGENT_CONFIGS["triage"])['system_prompt']
agent_config(agent_type) ==
    dict_get(AGENT_CONFIGS, agent_type, AGENT_CONFIGS["triage"])

\* classify with the usability-testing branch tested before the job-story branch
classify_usability_first(message_lower, agent_type) ==
    IF any_keyword_in(UsabilityKeywords, message_lower) THEN UsabilityResponse
    ELSE IF any_keyword_in(JobStoryKeywords, message_lower) THEN JobStoryResponse
    ELSE IF any_keyword_in(StrategyKeywords, message_lower) THEN StrategyResponse
    ELSE IF any_keyword_in(UserFlowKeywords, message_lower) THEN UserFlowResponse
    ELSE IF any_keyword_in(AnalyticsKeywords, message_lower) THEN AnalyticsResponse
    ELSE IF any_keyword_in(WorkflowKeywords, message_lower) THEN WorkflowResponse
    ELSE IF any_keyword_in(ResearchKeywords, message_lower) THEN ResearchResponse
    ELSE mock_response(agent_type)

\* the if/elif chain of get_smart_fallback_response on the lower-cased message
classify(message_lower, agent_type) ==
    IF any_keyword_in(JobStoryKeywords, message_lower) THEN JobStoryResponse
    ELSE IF any_keyword_in(StrategyKeywords, message_lower) THEN StrategyResponse
    ELSE IF any_keyword_in(UsabilityKeywords, message_lower) THEN UsabilityResponse
    ELSE IF any_keyword_in(UserFlowKeywords, message_lower) THEN UserFlowResponse
    ELSE IF any_keyword_in(AnalyticsKeywords, message_lower) THEN AnalyticsResponse
    ELSE IF any_keyword_in(WorkflowKeywords, message_lower) THEN WorkflowResponse
    ELSE IF any_keyword_in(ResearchKeywords, message_lower) THEN ResearchResponse
    ELSE mock_response(agent_type)

get_smart_fallback_response(message, agent_type) ==
    Only({classify(message_lower, agent_type) : message_lower \in {lower(message)}})

(***************************************************************************)
(* Conversation store of the Ollama backend.                               *)
(***************************************************************************)
HistoryLimit == 20

\* get_or_create_conversation numbering a new conversation len(chat_sessions) + 1
\* and leaving the counter alone
get_or_create_conversation_len(conversation_id) ==
    IF conversation_id = None \/ conversation_id[1] \notin DOMAIN chat_sessions
    THEN [id |-> next_conversation_id,
          next |-> next_conversation_id,
          sessions |-> [i \in DOMAIN chat_sessions \cup {next_conversation_id} |->
                          IF i = next_conversation_id THEN <<>> ELSE chat_sessions[i]]]
    ELSE [id |-> conversation_id[1],
          next |-> next_conversation_id,
          sessions |-> chat_sessions]

\* get_or_create_conversation creating a conversation under the id the
\* request names when that id is unknown
get_or_create_conversation_named(conversation_id) ==
    IF conversation_id = None
    THEN [id |-> next_conversation_id,
          next |-> next_conversation_id + 1,
          sessions |-> [i \in DOMAIN chat_sessions \cup {next_conversation_id} |->
                          IF i = next_conversation_id THEN <<>> ELSE chat_sessions[i]]]
    ELSE IF conversation_id[1] \notin DOMAIN chat_sessions
    THEN [id |-> conversation_id[1],
          next |-> next_conversation_id,
          sessions |-> [i \in DOMAIN chat_sessions \cup {conversation_id[1]} |->
                          IF i = conversation_id[1] THEN <<>> ELSE chat_sessions[i]]]
    ELSE [id |-> conversation_id[1],
          next |-> next_conversation_id,
          sessions |-> chat_sessions]

\* get_or_create_conversation: the id it returns (id), and the counter (next)
\* and the store (sessions) it leaves behind
get_or_create_conversation(conversation_id) ==
    IF conversation_id = None \/ conversation_id[1] \notin DOMAIN chat_sessions
    THEN [id |-> next_conversation_id,
          next |-> next_conversation_id + 1,
          sessions |-> [i \in DOMAIN chat_sessions \cup {next_conversation_id} |->
                          IF i = next_conversation_id THEN <<>> ELSE chat_sessions[i]]]
    ELSE [id |-> conversation_id[1],
          next |-> next_conversation_id,
          sessions |-> chat_sessions]

\* trimmed with the limit off by one
trimmed_late(log) ==
    IF Len(log) > HistoryLimit + 1 THEN LastN(log, HistoryLimit) ELSE log

\* trimmed keeping the front of the list, log[:20]
trimmed_front(log) ==
    IF Len(log) > HistoryLimit THEN SubSeq(log, 1, HistoryLimit) ELSE log

\* the list stored for the conversation after append and trim
trimmed(log) ==
    IF Len(log) > HistoryLimit THEN LastN(log, HistoryLimit) ELSE log

\* add_message_to_history reassigning, at the limit, a slice of the list taken
\* before the new message was appended to it
add_message_to_history_stale_slice(conversation_id, role, content) ==
    LET message == [role |-> role, content |-> content, timestamp |-> clock] IN
    /\ chat_sessions' = [chat_sessions EXCEPT
                            ![conversation_id] =
                                IF Len(@) + 1 > HistoryLimit THEN LastN(@, HistoryLimit)
                                ELSE Append(@, message)]
    /\ appended' = [appended EXCEPT ![conversation_id] = Append(@, message)]
    /\ clock' = clock + 1

add_message_to_history(conversation_id, role, content) ==
    LET message == [role |-> role, content |-> content, timestamp |-> clock] IN
    /\ chat_sessions' = [chat_sessions EXCEPT
                            ![conversation_id] = trimmed(Append(@, message))]
    /\ appended' = [appended EXCEPT ![conversation_id] = Append(@, message)]
    /\ clock' = clock + 1

(***************************************************************************)
(* Completion call of the Ollama backend.  What the completion service     *)
(* does with one request is an input: an HTTP response (status code, body) *)
(* or an exception raised by requests.post (connection error, timeout).    *)
(***************************************************************************)
Http(status, body, text) == [kind |-> "http", status |-> status, body |-> body, text |-> text]
Raised(text) == [kind |-> "exception", status |-> "", body |-> "", text |-> text]
NoOutcome == [kind |-> "none", status |-> "", body |-> "", text |-> ""]

\* history[-4:] formatted as "Role: content\n"
RECURSIVE history_lines(_, _)
history_lines(msgs, i) ==
    IF i > Len(msgs) THEN ""
    ELSE title(msgs[i].role) \o ": " \o msgs[i].content \o "\n" \o history_lines(msgs, i + 1)

ContextWindow == 4

build_context_prompt(agent_type, message, conversation_id) ==
    LET base_prompt == agent_config(agent_type)
        history == IF conversation_id \in DOMAIN chat_sessions
                   THEN chat_sessions[conversation_id] ELSE <<>>
        context == IF history # <<>>
                   THEN "\n\nRecent conversation history:\n"
                        \o history_lines(LastN(history, ContextWindow), 1)
                        \o "\n\nImportant instructions:"
                   ELSE ""
    IN  base_prompt \o context \o "\n\nUser: " \o message \o "\n\nAssistant:"

\* get_ollama_response_sync taking every 2xx status as a success
get_ollama_response_sync_2xx(outcome) ==
    IF outcome.kind = "exception" THEN "Ollama service error: " \o outcome.text
    ELSE IF SubSeq(outcome.status, 1, 1) = "2"
         THEN IF outcome.body = "not_json"
              THEN "Ollama service error: Expecting value: line 1 column 1 (char 0)"
              ELSE IF outcome.body = "json_without_response" THEN "No response generated"
              ELSE outcome.text
         ELSE "Ollama API error: " \o outcome.status

\* the string get_ollama_response_sync returns for one outcome of requests.post
get_ollama_response_sync(outcome) ==
    IF outcome.kind = "exception" THEN "Ollama service error: " \o outcome.text
    ELSE IF outcome.status = "200"
         THEN IF outcome.body = "not_json"
              THEN "Ollama service error: Expecting value: line 1 column 1 (char 0)"
              ELSE IF outcome.body = "json_without_response" THEN "No response generated"
              ELSE outcome.text
         ELSE "Ollama API error: " \o outcome.status

\* is_error_response looking for "api" only
is_error_response_api_only(response) ==
    \E r \in {lower(response)} :
        /\ contains("error", r)
        /\ contains("api", r)

\* the test of chat_with_ux_agent on the text it got back
is_error_response(response) ==
    \E r \in {lower(response)} :
        /\ contains("error", r)
        /\ contains("ollama", r) \/ contains("api", r)

(***************************************************************************)
(* Handlers of the Ollama backend.  The handlers are coroutines without a  *)
(* suspension point, so the event loop runs one of them at a time: a chat  *)
(* turn in progress excludes every other handler.                          *)
(***************************************************************************)
IdleTurn == [pc |-> "idle", message |-> "", agent_type |-> "", conversation_id |-> None,
             cid |-> 0, prompt |-> "", outcome |-> NoOutcome, raw |-> "", response |-> "",
             calls |-> 0]

NoReply == [op |-> "none", status |-> 0]

Idle == turn.pc \in {"idle", "responded"}

startup_event(available) ==
    /\ ~started
    /\ started' = TRUE
    /\ ollama_available' = available
    /\ UNCHANGED <<chat_sessions, next_conversation_id, clock, turn, reply, appended>>
    /\ UNCHANGED <<appVars, memVars, fn, pending>>

\* POST /api/ux-agent/chat: the request arrives
ChatReceived(message, agent_type, conversation_id, bound) ==
    /\ started /\ Idle
    /\ clock + 2 <= bound
    /\ turn' = [IdleTurn EXCEPT !.pc = "received", !.message = message,
                                !.agent_type = agent_type,
                                !.conversation_id = conversation_id]
    /\ UNCHANGED <<started, ollama_available, chat_sessions, next_conversation_id, clock,
                   reply, appended>>
    /\ UNCHANGED <<appVars, memVars, fn, pending>>

\* a chat request reaches the server while the event loop may be busy with
\* another handler: it waits for the loop
MaxPending == 2        \* chat requests waiting for the event loop

\* the messages that the turn under way and the waiting requests will store
ToStore ==
    2 * Len(pending)
    + (IF turn.pc \in {"received", "conversation_resolved"} THEN 2
       ELSE IF turn.pc \in {"idle", "message_appended", "responded"} THEN 0
       ELSE 1)

ChatArrive(message, agent_type, conversation_id, bound) ==
    /\ started
    /\ Len(pending) < MaxPending
    /\ clock + ToStore + 2 <= bound
    /\ pending' = Append(pending, [message |-> message, agent_type |-> agent_type,
                                   conversation_id |-> conversation_id])
    /\ UNCHANGED <<started, ollama_available, chat_sessions, next_conversation_id, clock,
                   turn, reply, appended>>
    /\ UNCHANGED <<appVars, memVars, fn>>

\* ChatStart entering the handler while another handler is under way, as if
\* that handler were suspended at an await
ChatStart_suspended(bound) ==
    /\ started
    /\ pending # <<>>
    /\ clock + 2 <= bound
    /\ turn' = [IdleTurn EXCEPT !.pc = "received", !.message = Head(pending).message,
                                !.agent_type = Head(pending).agent_type,
                                !.conversation_id = Head(pending).conversation_id]
    /\ pending' = Tail(pending)
    /\ UNCHANGED <<started, ollama_available, chat_sessions, next_conversation_id, clock,
                   reply, appended>>
    /\ UNCHANGED <<appVars, memVars, fn>>

\* the event loop enters the handler of the oldest waiting request; the
\* handler under way is a coroutine without an await (requests.post blocks
\* the loop), so this happens only once it has returned
ChatStart(bound) ==
    /\ started /\ Idle
    /\ pending # <<>>
    /\ clock + 2 <= bound
    /\ turn' = [IdleTurn EXCEPT !.pc = "received", !.message = Head(pending).message,
                                !.agent_type = Head(pending).agent_type,
                                !.conversation_id = Head(pending).conversation_id]
    /\ pending' = Tail(pending)
    /\ UNCHANGED <<started, ollama_available, chat_sessions, next_conversation_id, clock,
                   reply, appended>>
    /\ UNCHANGED <<appVars, memVars, fn>>

ChatResolveConversation ==
    /\ turn.pc = "received"
    /\ LET r == get_or_create_conversation(turn.conversation_id) IN
          /\ chat_sessions' = r.sessions
          /\ next_conversation_id' = r.next
          /\ appended' = [i \in DOMAIN r.sessions |->
                            IF i \in DOMAIN appended THEN appended[i] ELSE <<>>]
          /\ turn' = [turn EXCEPT !.pc = "conversation_resolved", !.cid = r.id]
    /\ UNCHANGED <<started, ollama_available, clock, reply>>
    /\ UNCHANGED <<appVars, memVars, fn, pending>>

ChatAppendUser ==
    /\ turn.pc = "conversation_resolved"
    /\ add_message_to_history(turn.cid, "user", turn.message)
    /\ turn' = [turn EXCEPT !.pc = "user_appended"]
    /\ UNCHANGED <<started, ollama_available, next_conversation_id, reply>>
    /\ UNCHANGED <<appVars, memVars, fn, pending>>

ChatBuildPrompt ==
    /\ turn.pc = "user_appended"
    /\ ollama_available
    /\ turn' = [turn EXCEPT !.pc = "prompt_built",
                            !.prompt = build_context_prompt(turn.agent_type, turn.message, turn.cid)]
    /\ UNCHANGED <<started, ollama_available, chat_sessions, next_conversation_id, clock,
                   reply, appended>>
    /\ UNCHANGED <<appVars, memVars, fn, pending>>

\* ChatAttemptCompletion marking the completion service unavailable once a
\* call to it has raised
ChatAttemptCompletion_mark_down(outcome) ==
    /\ turn.pc = "prompt_built"
    /\ turn' = [turn EXCEPT !.pc = "completion_attempted",
                            !.outcome = outcome,
                            !.raw = get_ollama_response_sync(outcome),
                            !.calls = @ + 1]
    /\ ollama_available' = (outcome.kind # "exception")
    /\ UNCHANGED <<started, chat_sessions, next_conversation_id, clock, reply, appended>>
    /\ UNCHANGED <<appVars, memVars, fn, pending>>

ChatAttemptCompletion(outcome) ==
    /\ turn.pc = "prompt_built"
    /\ turn' = [turn EXCEPT !.pc = "completion_attempted",
                            !.outcome = outcome,
                            !.raw = get_ollama_response_sync(outcome),
                            !.calls = @ + 1]
    /\ UNCHANGED <<started, ollama_available, chat_sessions, next_conversation_id, clock,
                   reply, appended>>
    /\ UNCHANGED <<appVars, memVars, fn, pending>>

\* ChatCheckCompletion sending the request again after a failure
ChatCheckCompletion_retry ==
    /\ turn.pc = "completion_attempted"
    /\ turn' = IF is_error_response(turn.raw)
               THEN IF turn.calls < 2
                    THEN [turn EXCEPT !.pc = "prompt_built"]
                    ELSE [turn EXCEPT !.pc = "completion_failed"]
               ELSE [turn EXCEPT !.pc = "completion_ok", !.response = turn.raw]
    /\ UNCHANGED <<started, ollama_available, chat_sessions, next_conversation_id, clock,
                   reply, appended>>
    /\ UNCHANGED <<appVars, memVars, fn, pending>>

\* ChatCheckCompletion surfacing the failure as an HTTP error
ChatCheckCompletion_raise ==
    /\ turn.pc = "completion_attempted"
    /\ IF is_error_response(turn.raw)
       THEN /\ turn' = [turn EXCEPT !.pc = "error"]
            /\ reply' = [op |-> "chat", status |-> 500]
       ELSE /\ turn' = [turn EXCEPT !.pc = "completion_ok", !.response = turn.raw]
            /\ UNCHANGED reply
    /\ UNCHANGED <<started, ollama_available, chat_sessions, next_conversation_id, clock,
                   appended>>
    /\ UNCHANGED <<appVars, memVars, fn, pending>>

ChatCheckCompletion ==
    /\ turn.pc = "completion_attempted"
    /\ turn' = IF is_error_response(turn.raw)
               THEN [turn EXCEPT !.pc = "completion_failed"]
               ELSE [turn EXCEPT !.pc = "completion_ok", !.response = turn.raw]
    /\ UNCHANGED <<started, ollama_available, chat_sessions, next_conversation_id, clock,
                   reply, appended>>
    /\ UNCHANGED <<appVars, memVars, fn, pending>>

ChatSelectFallback ==
    /\ \/ turn.pc = "completion_failed"
       \/ turn.pc = "user_appended" /\ ~ollama_available
    /\ turn' = [turn EXCEPT !.pc = "fallback_selected",
                            !.response = get_smart_fallback_response(turn.message, turn.agent_type)]
    /\ UNCHANGED <<started, ollama_available, chat_sessions, next_conversation_id, clock,
                   reply, appended>>
    /\ UNCHANGED <<appVars, memVars, fn, pending>>

\* ChatAppendAssistant storing the assistant message before the text it got
\* back has been checked
ChatAppendAssistant_unchecked ==
    /\ turn.pc \in {"completion_attempted", "completion_ok", "fallback_selected"}
    /\ add_message_to_history(turn.cid, "assistant",
                              IF turn.pc = "completion_attempted" THEN turn.raw
                              ELSE turn.response)
    /\ turn' = [turn EXCEPT !.pc = "message_appended",
                            !.response = IF turn.pc = "completion_attempted" THEN turn.raw
                                         ELSE turn.response]
    /\ UNCHANGED <<started, ollama_available, next_conversation_id, reply>>
    /\ UNCHANGED <<appVars, memVars, fn, pending>>

ChatAppendAssistant ==
    /\ turn.pc \in {"completion_ok", "fallback_selected"}
    /\ add_message_to_history(turn.cid, "assistant", turn.response)
    /\ turn' = [turn EXCEPT !.pc = "message_appended"]
    /\ UNCHANGED <<started, ollama_available, next_conversation_id, reply>>
    /\ UNCHANGED <<appVars, memVars, fn, pending>>

ChatRespond ==
    /\ turn.pc = "message_appended"
    /\ reply' = [op |-> "chat", status |-> 200,
                 response |-> turn.response,
                 agent_used |-> turn.agent_type,
                 conversation_id |-> turn.cid,
                 chat_history |-> chat_sessions[turn.cid]]
    /\ turn' = [turn EXCEPT !.pc = "responded"]
    /\ UNCHANGED <<started, ollama_available, chat_sessions, next_conversation_id, clock,
                   appended>>
    /\ UNCHANGED <<appVars, memVars, fn, pending>>

\* get_chat_history answering 404 for an id that names no conversation
get_chat_history_404(conversation_id) ==
    /\ started /\ Idle
    /\ reply' = IF conversation_id \in DOMAIN chat_sessions
                THEN [op |-> "get_chat_history", status |-> 200,
                      conversation_id |-> conversation_id,
                      messages |-> chat_sessions[conversation_id]]
                ELSE [op |-> "get_chat_history", status |-> 404,
                      conversation_id |-> conversation_id, messages |-> <<>>]
    /\ UNCHANGED ollamaVars
    /\ UNCHANGED <<appVars, memVars, fn>>

\* GET /api/ux-agent/chat-history/{conversation_id}
get_chat_history(conversation_id) ==
    /\ started /\ Idle
    /\ reply' = [op |-> "get_chat_history", status |-> 200,
                 conversation_id |-> conversation_id,
                 messages |-> IF conversation_id \in DOMAIN chat_sessions
                              THEN chat_sessions[conversation_id] ELSE <<>>]
    /\ UNCHANGED ollamaVars
    /\ UNCHANGED <<appVars, memVars, fn>>

\* clear_chat_history removing the conversation's entry from the store
clear_chat_history_delete(conversation_id) ==
    /\ started /\ Idle
    /\ IF conversation_id \in DOMAIN chat_sessions
       THEN /\ chat_sessions' = [i \in DOMAIN chat_sessions \ {conversation_id} |->
                                   chat_sessions[i]]
            /\ appended' = [i \in DOMAIN appended \ {conversation_id} |-> appended[i]]
            /\ reply' = [op |-> "clear_chat_history", status |-> 200,
                         conversation_id |-> conversation_id, message |-> "cleared"]
       ELSE /\ UNCHANGED <<chat_sessions, appended>>
            /\ reply' = [op |-> "clear_chat_history", status |-> 200,
                         conversation_id |-> conversation_id, message |-> "not found"]
    /\ UNCHANGED <<started, ollama_available, next_conversation_id, clock, turn>>
    /\ UNCHANGED <<appVars, memVars, fn, pending>>

\* DELETE /api/ux-agent/chat-history/{conversation_id}
clear_chat_history(conversation_id) ==
    /\ started /\ Idle
    /\ IF conversation_id \in DOMAIN chat_sessions
       THEN /\ chat_sessions' = [chat_sessions EXCEPT ![conversation_id] = <<>>]
            /\ appended' = [appended EXCEPT ![conversation_id] = <<>>]
            /\ reply' = [op |-> "clear_chat_history", status |-> 200,
                         conversation_id |-> conversation_id, message |-> "cleared"]
       ELSE /\ UNCHANGED <<chat_sessions, appended>>
            /\ reply' = [op |-> "clear_chat_history", status |-> 200,
                         conversation_id |-> conversation_id, message |-> "not found"]
    /\ UNCHANGED <<started, ollama_available, next_conversation_id, clock, turn>>
    /\ UNCHANGED <<appVars, memVars, fn, pending>>

(***************************************************************************)
(* Database-backed application: users, payments, conversations.            *)
(***************************************************************************)
MaxUsers == 2           \* rows of the users table
MaxIntents == 1         \* payment intents created at the processor
MaxConversations == 1   \* rows of the conversations table

\* app.core.auth.get_current_active_user: the bearer of a valid token for an
\* active account; any other request is refused before the handler runs
get_current_active_user(u) ==
    u \in DOMAIN users /\ users[u].is_active

\* POST /api/auth/register: a row with the column defaults of the User model
register(email, username, full_name) ==
    /\ Len(users) < MaxUsers
    /\ IF \E i \in DOMAIN users : users[i].email = email \/ users[i].username = username
       THEN /\ reply' = [op |-> "register", status |-> 400]
            /\ UNCHANGED users
       ELSE /\ users' = Append(users, [email |-> email, username |-> username,
                                       full_name |-> full_name, is_active |-> TRUE,
                                       is_premium |-> FALSE, subscription_id |-> None])
            /\ reply' = [op |-> "register", status |-> 200, id |-> Len(users) + 1]
    /\ UNCHANGED <<payments, conversations, stripe_intents>>
    /\ UNCHANGED <<ollamaVars, memVars, fn>>

\* PUT /api/user/profile with body UserUpdate(full_name, email)
update_user_profile(u, full_name, email) ==
    /\ get_current_active_user(u)
    /\ IF email # None /\ \E i \in DOMAIN users : users[i].email = email[1] /\ i # u
       THEN /\ reply' = [op |-> "update_user_profile", status |-> 400, user |-> u]
            /\ UNCHANGED users
       ELSE /\ users' = [users EXCEPT
                            ![u].full_name = IF full_name # None THEN full_name ELSE @,
                            ![u].email = IF email # None THEN email[1] ELSE @]
            /\ reply' = [op |-> "update_user_profile", status |-> 200, user |-> u]
    /\ UNCHANGED <<payments, conversations, stripe_intents>>
    /\ UNCHANGED <<ollamaVars, memVars, fn>>

\* delete_user_account ending the subscription with the account
delete_user_account_cancel(u) ==
    /\ get_current_active_user(u)
    /\ users' = [users EXCEPT ![u].is_active = FALSE, ![u].is_premium = FALSE,
                              ![u].subscription_id = None]
    /\ reply' = [op |-> "delete_user_account", status |-> 200, user |-> u]
    /\ UNCHANGED <<payments, conversations, stripe_intents>>
    /\ UNCHANGED <<ollamaVars, memVars, fn>>

\* DELETE /api/user/account
delete_user_account(u) ==
    /\ get_current_active_user(u)
    /\ users' = [users EXCEPT ![u].is_active = FALSE]
    /\ reply' = [op |-> "delete_user_account", status |-> 200, user |-> u]
    /\ UNCHANGED <<payments, conversations, stripe_intents>>
    /\ UNCHANGED <<ollamaVars, memVars, fn>>

\* POST /api/payment/create-payment-intent; stripe_ok is whether
\* stripe.PaymentIntent.create returned an intent or raised StripeError
create_payment_intent(u, amount, stripe_ok) ==
    /\ get_current_active_user(u)
    /\ stripe_intents < MaxIntents
    /\ IF stripe_ok
       THEN /\ stripe_intents' = stripe_intents + 1
            /\ payments' = Append(payments,
                                  [user_id |-> u,
                                   stripe_payment_intent_id |-> stripe_intents + 1,
                                   amount_cents |-> amount,
                                   status |-> "pending"])
            /\ reply' = [op |-> "create_payment_intent", status |-> 200, user |-> u,
                         payment_intent_id |-> stripe_intents + 1]
       ELSE /\ UNCHANGED <<stripe_intents, payments>>
            /\ reply' = [op |-> "create_payment_intent", status |-> 400, user |-> u]
    /\ UNCHANGED <<users, conversations>>
    /\ UNCHANGED <<ollamaVars, memVars, fn>>

\* db.query(Payment).filter(stripe_payment_intent_id == id).first(): row index or 0
payment_by_intent(intent_id) ==
    IF \E p \in DOMAIN payments : payments[p].stripe_payment_intent_id = intent_id
    THEN CHOOSE p \in DOMAIN payments :
            /\ payments[p].stripe_payment_intent_id = intent_id
            /\ \A q \in DOMAIN payments :
                  payments[q].stripe_payment_intent_id = intent_id => p <= q
    ELSE 0

\* webhook_payments without the payment_failed branch
webhook_payments_succeeded_only(event_type, intent_id) ==
    LET p == payment_by_intent(intent_id) IN
    IF event_type = "payment_intent.succeeded" /\ p # 0
    THEN [payments EXCEPT ![p].status = "succeeded"]
    ELSE payments

\* the payments table after the webhook handled an event
webhook_payments(event_type, intent_id) ==
    LET p == payment_by_intent(intent_id) IN
    IF event_type = "payment_intent.succeeded" /\ p # 0
    THEN [payments EXCEPT ![p].status = "succeeded"]
    ELSE IF event_type = "payment_intent.payment_failed" /\ p # 0
    THEN [payments EXCEPT ![p].status = "failed"]
    ELSE payments

\* webhook_users granting premium on any event that names a known payment
webhook_users_any_event(event_type, intent_id) ==
    LET p == payment_by_intent(intent_id) IN
    IF p # 0 /\ payments[p].user_id \in DOMAIN users
    THEN [users EXCEPT ![payments[p].user_id].is_premium = TRUE,
                       ![payments[p].user_id].subscription_id = <<intent_id>>]
    ELSE users

\* the users table after the webhook handled an event
webhook_users(event_type, intent_id) ==
    LET p == payment_by_intent(intent_id) IN
    IF event_type = "payment_intent.succeeded" /\ p # 0
       /\ payments[p].user_id \in DOMAIN users
    THEN [users EXCEPT ![payments[p].user_id].is_premium = TRUE,
                       ![payments[p].user_id].subscription_id = <<intent_id>>]
    ELSE users

\* what stripe.Webhook.construct_event does with a request: it returns the
\* event, raises ValueError (malformed payload) or raises
\* SignatureVerificationError
WebhookVerifications == {"verified", "invalid_payload", "invalid_signature"}

\* stripe_webhook handling the event before the verification is looked at
stripe_webhook_unverified(verification, event_type, intent_id) ==
    /\ payments' = webhook_payments(event_type, intent_id)
    /\ users' = webhook_users(event_type, intent_id)
    /\ reply' = IF verification # "verified"
                THEN [op |-> "stripe_webhook", status |-> 400,
                      detail |-> IF verification = "invalid_payload"
                                 THEN "Invalid payload" ELSE "Invalid signature"]
                ELSE [op |-> "stripe_webhook", status |-> 200,
                      type |-> event_type, intent |-> intent_id]
    /\ UNCHANGED <<conversations, stripe_intents>>
    /\ UNCHANGED <<ollamaVars, memVars, fn>>

\* POST /api/payment/webhook; verification is the outcome of construct_event
\* on the payload and its signature header
stripe_webhook(verification, event_type, intent_id) ==
    /\ IF verification # "verified"
       THEN /\ reply' = [op |-> "stripe_webhook", status |-> 400,
                         detail |-> IF verification = "invalid_payload"
                                    THEN "Invalid payload" ELSE "Invalid signature"]
            /\ UNCHANGED <<users, payments>>
       ELSE /\ payments' = webhook_payments(event_type, intent_id)
            /\ users' = webhook_users(event_type, intent_id)
            /\ reply' = [op |-> "stripe_webhook", status |-> 200,
                         type |-> event_type, intent |-> intent_id]
    /\ UNCHANGED <<conversations, stripe_intents>>
    /\ UNCHANGED <<ollamaVars, memVars, fn>>

(***************************************************************************)
(* Agent service of the application (UXAgentService) and its chat route.   *)
(***************************************************************************)
\* process_request answering with a canned text when Runner.run raised
process_request_fallback(user_input, agent_type, run) ==
    IF agent_type \notin AgentIds
    THEN [success |-> FALSE, response |-> "",
          error |-> "Unknown agent type: " \o agent_type, agent_used |-> agent_type]
    ELSE IF run = None
    THEN [success |-> TRUE, response |-> mock_response(agent_type), error |-> "",
          agent_used |-> agent_type]
    ELSE [success |-> TRUE, response |-> run[1], error |-> "", agent_used |-> agent_type]

\* UXAgentService.process_request; run is the outcome of Runner.run:
\* <<text>> for a final output, None when it raised
process_request(user_input, agent_type, run) ==
    IF agent_type \notin AgentIds
    THEN [success |-> FALSE, response |-> "",
          error |-> "Unknown agent type: " \o agent_type, agent_used |-> agent_type]
    ELSE IF run = None
    THEN [success |-> FALSE, response |-> "",
          error |-> "Runner.run failed", agent_used |-> agent_type]
    ELSE [success |-> TRUE, response |-> run[1], error |-> "", agent_used |-> agent_type]

\* request.message[:50] + "..." if len(request.message) > 50 else request.message
TitleLength == 50
conversation_title(message) ==
    IF Len(message) > TitleLength THEN SubSeq(message, 1, TitleLength) \o "..." ELSE message

\* the chat route without the premium check
app_chat_with_ux_agent_unchecked(u, message, agent_type, run) ==
    /\ get_current_active_user(u)
    /\ Len(conversations) < MaxConversations
    /\ LET result == process_request(message,
                                     IF agent_type = "" THEN "triage" ELSE agent_type,
                                     run)
       IN  IF ~result.success
           THEN /\ reply' = [op |-> "app_chat", status |-> 500, user |-> u,
                             detail |-> "Error processing request: 500: "
                                        \o "Agent processing failed: " \o result.error]
                /\ UNCHANGED conversations
           ELSE /\ conversations' = Append(conversations,
                       [user_id |-> u, title |-> conversation_title(message),
                        agent_type |-> result.agent_used,
                        messages |-> <<[role |-> "user", content |-> message],
                                       [role |-> "assistant", content |-> result.response]>>])
                /\ reply' = [op |-> "app_chat", status |-> 200, user |-> u,
                             response |-> result.response,
                             agent_used |-> result.agent_used,
                             conversation_id |-> Len(conversations) + 1]
    /\ UNCHANGED <<users, payments, stripe_intents>>
    /\ UNCHANGED <<ollamaVars, memVars, fn>>

\* POST /api/ux-agent/chat of the application
app_chat_with_ux_agent(u, message, agent_type, run) ==
    /\ get_current_active_user(u)
    /\ Len(conversations) < MaxConversations
    /\ IF ~users[u].is_premium
       THEN /\ reply' = [op |-> "app_chat", status |-> 403, user |-> u]
            /\ UNCHANGED conversations
       ELSE LET result == process_request(message,
                                          IF agent_type = "" THEN "triage" ELSE agent_type,
                                          run)
            IN  IF ~result.success
                THEN /\ reply' = [op |-> "app_chat", status |-> 500, user |-> u,
                                  detail |-> "Error processing request: 500: "
                                             \o "Agent processing failed: " \o result.error]
                     /\ UNCHANGED conversations
                ELSE /\ conversations' = Append(conversations,
                            [user_id |-> u, title |-> conversation_title(message),
                             agent_type |-> result.agent_used,
                             messages |-> <<[role |-> "user", content |-> message],
                                            [role |-> "assistant", content |-> result.response]>>])
                     /\ reply' = [op |-> "app_chat", status |-> 200, user |-> u,
                                  response |-> result.response,
                                  agent_used |-> result.agent_used,
                                  conversation_id |-> Len(conversations) + 1]
    /\ UNCHANGED <<users, payments, stripe_intents>>
    /\ UNCHANGED <<ollamaVars, memVars, fn>>

\* POST /api/ux-agent/conversations of the application
MaxOwnedConversations == 2   \* rows of the conversations table in the ownership specification
create_conversation(u, new_title, agent_type, bound) ==
    /\ get_current_active_user(u)
    /\ Len(conversations) < bound
    /\ conversations' = Append(conversations,
                               [user_id |-> u, title |-> new_title, agent_type |-> agent_type,
                                messages |-> <<>>])
    /\ reply' = [op |-> "create_conversation", status |-> 200, user |-> u,
                 id |-> Len(conversations) + 1, title |-> new_title, agent_type |-> agent_type]
    /\ UNCHANGED <<users, payments, stripe_intents>>
    /\ UNCHANGED <<ollamaVars, memVars, fn>>

\* GET /api/ux-agent/conversations of the application.  The rows are ordered
\* by updated_at, which no route ever sets, so the order among them is the
\* database's: the answer is kept as the set of ids returned.
get_user_conversations(u) ==
    /\ get_current_active_user(u)
    /\ reply' = [op |-> "get_user_conversations", status |-> 200, user |-> u,
                 ids |-> {c \in DOMAIN conversations : conversations[c].user_id = u}]
    /\ UNCHANGED appVars
    /\ UNCHANGED <<ollamaVars, memVars, fn>>

\* get_conversation looking the conversation up by its id alone
get_conversation_any_user(u, conversation_id) ==
    /\ get_current_active_user(u)
    /\ reply' = IF conversation_id \in DOMAIN conversations
                THEN [op |-> "get_conversation", status |-> 200, user |-> u,
                      id |-> conversation_id,
                      title |-> conversations[conversation_id].title,
                      agent_type |-> conversations[conversation_id].agent_type,
                      messages |-> conversations[conversation_id].messages]
                ELSE [op |-> "get_conversation", status |-> 404, user |-> u,
                      id |-> conversation_id, detail |-> "Conversation not found"]
    /\ UNCHANGED appVars
    /\ UNCHANGED <<ollamaVars, memVars, fn>>

\* GET /api/ux-agent/conversations/{conversation_id} of the application
get_conversation(u, conversation_id) ==
    /\ get_current_active_user(u)
    /\ reply' = IF /\ conversation_id \in DOMAIN conversations
                   /\ conversations[conversation_id].user_id = u
                THEN [op |-> "get_conversation", status |-> 200, user |-> u,
                      id |-> conversation_id,
                      title |-> conversations[conversation_id].title,
                      agent_type |-> conversations[conversation_id].agent_type,
                      messages |-> conversations[conversation_id].messages]
                ELSE [op |-> "get_conversation", status |-> 404, user |-> u,
                      id |-> conversation_id, detail |-> "Conversation not found"]
    /\ UNCHANGED appVars
    /\ UNCHANGED <<ollamaVars, memVars, fn>>

(***************************************************************************)
(* The in-memory backends llm_backend.py and simple_backend.py: two        *)
(* programs with the same module state users_db, conversations_db and      *)
(* current_user_id, each kept here under the name of its program.          *)
(***************************************************************************)
InMemoryBackends == {"llm_backend", "simple_backend"}
MaxMemUsers == 2           \* users registered with one in-memory backend
MaxMemConversations == 1   \* conversations recorded by one in-memory backend

\* already_registered looking at the email only
already_registered_email(backend, email, username) ==
    \E i \in DOMAIN users_db[backend] : users_db[backend][i].email = email

\* the test of register on the users already stored
already_registered(backend, email, username) ==
    \E i \in DOMAIN users_db[backend] :
        users_db[backend][i].email = email \/ users_db[backend][i].username = username

\* d[key] = value on a dict kept as a function
dict_set(d, key, value) ==
    [k \in DOMAIN d \cup {key} |-> IF k = key THEN value ELSE d[k]]

\* the body shared by the two register handlers; row is the stored user
\* without its id
register_in_memory(backend, row) ==
    /\ IF already_registered(backend, row.email, row.username)
       THEN /\ reply' = [op |-> "register", backend |-> backend, status |-> 400,
                         detail |-> "Email or username already registered"]
            /\ UNCHANGED <<users_db, current_user_id>>
       ELSE /\ current_user_id[backend] <= MaxMemUsers
            /\ LET user_id == current_user_id[backend] IN
               /\ current_user_id' = [current_user_id EXCEPT ![backend] = user_id + 1]
               /\ users_db' = [users_db EXCEPT ![backend] =
                                 dict_set(@, user_id, [id |-> user_id] @@ row)]
               /\ reply' = [op |-> "register", backend |-> backend, status |-> 200,
                            id |-> user_id, email |-> row.email, username |-> row.username]
    /\ UNCHANGED conversations_db
    /\ UNCHANGED <<ollamaVars, appVars, fn>>

\* POST /api/auth/register of llm_backend
llm_register(email, username, password) ==
    register_in_memory("llm_backend",
                       [email |-> email, username |-> username, password |-> password])

\* POST /api/auth/register of simple_backend
simple_register(email, username, full_name) ==
    register_in_memory("simple_backend",
                       [email |-> email, username |-> username, full_name |-> full_name,
                        is_active |-> TRUE, is_premium |-> FALSE])

\* get_llm_response of llm_backend; completion is what
\* client.chat.completions.create did: <<text>> returned, or None raised
LlmError == "Connection error."
get_llm_response(message, agent_type, completion) ==
    IF completion = None
    THEN "I apologize, but I'm experiencing technical difficulties. Please try again later. (Error: "
         \o LlmError \o ")"
    ELSE completion[1]

\* POST /api/ux-agent/chat of llm_backend
llm_chat_with_ux_agent(message, agent_type, completion) ==
    /\ Len(conversations_db["llm_backend"]) < MaxMemConversations
    /\ LET response == get_llm_response(message, agent_type, completion)
           conversation_id == Len(conversations_db["llm_backend"]) + 1
       IN  /\ conversations_db' = [conversations_db EXCEPT !["llm_backend"] =
                 dict_set(@, conversation_id,
                          [id |-> conversation_id,
                           title |-> conversation_title(message),
                           agent_type |-> agent_type,
                           messages |-> <<[role |-> "user", content |-> message],
                                          [role |-> "assistant", content |-> response]>>])]
           /\ reply' = [op |-> "llm_chat", status |-> 200, response |-> response,
                        agent_used |-> agent_type, conversation_id |-> conversation_id]
    /\ UNCHANGED <<users_db, current_user_id>>
    /\ UNCHANGED <<ollamaVars, appVars, fn>>

(***************************************************************************)
(* Knowledge Lookup of the application (UXKnowledgeService).  The knowledge *)
(* base is a dict in insertion order: a list of documents with distinct    *)
(* ids.                                                                    *)
(***************************************************************************)
MaxDocs == 3            \* documents loaded into the knowledge base

\* str.count(sub) from position i on: occurrences found left to right, the
\* scan resuming after the end of each occurrence
RECURSIVE count_from(_, _, _)
count_from(s, sub, i) ==
    IF i + Len(sub) - 1 > Len(s) THEN 0
    ELSE IF SubSeq(s, i, i + Len(sub) - 1) = sub
         THEN 1 + count_from(s, sub, i + Len(sub))
         ELSE count_from(s, sub, i + 1)

\* str.count(sub)
count(s, sub) == count_from(s, sub, 1)

\* doc_data["content"][:200] + "..." if len(doc_data["content"]) > 200 else doc_data["content"]
PreviewLength == 200
preview(content) ==
    IF Len(content) > PreviewLength THEN SubSeq(content, 1, PreviewLength) \o "..." ELSE content

\* the loop over knowledge_base.items() from document i on: one result for
\* each document whose lower-cased content contains the lower-cased query
RECURSIVE matching_results(_, _, _)
matching_results(knowledge_base, query_lower, i) ==
    IF i > Len(knowledge_base) THEN <<>>
    ELSE LET doc == knowledge_base[i]
             rest == matching_results(knowledge_base, query_lower, i + 1)
         IN  Only({ IF contains(query_lower, content_lower)
                    THEN <<[document |-> doc.id, title |-> doc.title,
                            relevance |-> count(content_lower, query_lower),
                            preview |-> preview(doc.content)]>> \o rest
                    ELSE rest
                    : content_lower \in {lower(doc.content)} })

\* sorted_position for an ascending order
sorted_position_ascending(sorted, r) ==
    Cardinality({j \in DOMAIN sorted : sorted[j].relevance <= r.relevance})

\* the number of results of a sorted list that stay in front of result r:
\* those of higher or equal relevance (descending order, the sort is stable)
sorted_position(sorted, r) ==
    Cardinality({j \in DOMAIN sorted : sorted[j].relevance >= r.relevance})

\* results.sort(key=lambda x: x["relevance"], reverse=True) on the first n
\* results
RECURSIVE sort_by_relevance(_, _)
sort_by_relevance(results, n) ==
    IF n = 0 THEN <<>>
    ELSE LET sorted == sort_by_relevance(results, n - 1)
             k == sorted_position(sorted, results[n])
         IN  SubSeq(sorted, 1, k) \o <<results[n]>> \o SubSeq(sorted, k + 1, Len(sorted))

\* list[:n] for n >= 0
FirstN(s, n) == IF Len(s) <= n THEN s ELSE SubSeq(s, 1, n)

\* UXKnowledgeService.search_knowledge
search_knowledge(knowledge_base, query, max_results) ==
    LET results == matching_results(knowledge_base, lower(query), 1)
    IN  FirstN(sort_by_relevance(results, Len(results)), max_results)

(***************************************************************************)
(* The pure lookups, applied to inputs drawn at the start.                 *)
(***************************************************************************)
NoResult == [success |-> FALSE, response |-> "", error |-> "", agent_used |-> ""]

FnInit(message, agent_type) ==
    [message |-> message, agent_type |-> agent_type,
     classified |-> FALSE, fallback |-> "",
     resolved |-> FALSE, persona |-> "",
     processed |-> FALSE, service |-> NoResult]

\* the Fallback Classifier applied to the input
Classify ==
    /\ ~fn.classified
    /\ fn' = [fn EXCEPT !.classified = TRUE,
                        !.fallback = get_smart_fallback_response(fn.message, fn.agent_type)]
    /\ UNCHANGED <<ollamaVars, appVars, memVars, reply>>

\* the persona lookup of build_context_prompt applied to the input
ResolvePersona ==
    /\ ~fn.resolved
    /\ fn' = [fn EXCEPT !.resolved = TRUE, !.persona = agent_config(fn.agent_type)]
    /\ UNCHANGED <<ollamaVars, appVars, memVars, reply>>

\* the agent service applied to the input
ProcessRequest(run) ==
    /\ ~fn.processed
    /\ fn' = [fn EXCEPT !.processed = TRUE,
                        !.service = process_request(fn.message, fn.agent_type, run)]
    /\ UNCHANGED <<ollamaVars, appVars, memVars, reply>>

\* the state of a knowledge service and one call of search_knowledge
KnowledgeInit(knowledge_base, query, max_results) ==
    [knowledge_base |-> knowledge_base, query |-> query, max_results |-> max_results,
     searched |-> FALSE, results |-> <<>>]

\* search_knowledge applied to the input
SearchKnowledge ==
    /\ ~fn.searched
    /\ fn' = [fn EXCEPT !.searched = TRUE,
                        !.results = search_knowledge(fn.knowledge_base, fn.query,
                                                     fn.max_results)]
    /\ UNCHANGED <<ollamaVars, appVars, memVars, reply>>

(***************************************************************************)
(* Inputs.                                                                 *)
(***************************************************************************)
Messages == {"How do I write a Job Story?", "hello there"}
AgentInputs == {"writing", "designer"}
ConversationIdInputs == {None, <<1>>, <<2>>}
HistoryIds == {1, 2}
CompletionOutcomes ==
    { Http("200", "json", "When I onboard, I want guidance, so I can start."),
      Http("200", "json", "A clear API error message helps users recover."),
      Http("200", "json_without_response", ""),
      Http("200", "not_json", "<html>"),
      Http("500", "json", "model not found"),
      Http("201", "json", "Start from the user's goal."),
      Raised("Connection refused"),
      Raised("Read timed out.") }

StoreMessages == {"hello there"}
StoreAgentInputs == {"triage"}
StoreConversationIdInputs == {<<1>>}
StoreOutcomes == { Http("200", "json", "When I onboard, I want guidance, so I can start.") }

Fragments ==
    {"Job Story", "user story", "roadmap", "Usability Test", "testing", "user flow",
     "workflow", "metrics", "process", "user research", "hello", "B2B RESEARCH"}
\* the keywords of the seven lists, each as a whole message
KeywordMessages ==
    UNION {{k[n] : n \in DOMAIN k} :
           k \in {JobStoryKeywords, StrategyKeywords, UsabilityKeywords, UserFlowKeywords,
                  AnalyticsKeywords, WorkflowKeywords, ResearchKeywords}}
ClassifierMessages ==
    Fragments \cup {a \o " and " \o b : a \in Fragments, b \in Fragments}
              \cup KeywordMessages
ClassifierAgents == AgentIds \cup {"designer", "Triage", ""}
RunOutcomes == {None, <<"Here is a plan.">>}

Documents ==
    { [id |-> "flows",    title |-> "flows",    content |-> "Flow, flow, FLOW"],
      [id |-> "journeys", title |-> "journeys", content |-> "Workflow and user flow"],
      [id |-> "notes",    title |-> "notes",    content |-> "aaaaa flow Flow"],
      [id |-> "research", title |-> "research", content |-> "User research"] }
\* the knowledge bases: lists of at most MaxDocs documents with distinct ids
RECURSIVE KnowledgeBasesOfLength(_)
KnowledgeBasesOfLength(n) ==
    IF n = 0 THEN {<<>>}
    ELSE {Append(kb, d) : kb \in KnowledgeBasesOfLength(n - 1), d \in Documents}
KnowledgeBases ==
    {kb \in UNION {KnowledgeBasesOfLength(n) : n \in 0..MaxDocs} :
        \A i, j \in DOMAIN kb : kb[i].id = kb[j].id => i = j}
Queries == {"flow", "FLOW", "aa", "User", "persona"}
MaxResults == {0, 1, 2, 3, 5}

NewEmails == {None, <<"bob@example.com">>}
Registrants == {<<"ann@example.com", "ann">>, <<"bob@example.com", "bob">>,
                <<"bob@example.com", "ann">>}
FullNames == {None, <<"Ann">>}
Passwords == {"secret"}
Completions == {None, <<"Start from the user's goal.">>}
AppMessages == {"hello there"}
Titles == {"Checkout redesign"}
Amounts == {2999}
EventTypes == {"payment_intent.succeeded", "payment_intent.payment_failed",
               "payment_intent.created"}

(***************************************************************************)
(* Specifications.                                                         *)
(***************************************************************************)
Init ==
    /\ started = FALSE
    /\ ollama_available = FALSE
    /\ chat_sessions = <<>>
    /\ next_conversation_id = 1
    /\ clock = 0
    /\ turn = IdleTurn
    /\ reply = NoReply
    /\ appended = <<>>
    /\ users = <<>>
    /\ payments = <<>>
    /\ conversations = <<>>
    /\ stripe_intents = 0
    /\ pending = <<>>
    /\ users_db = [b \in InMemoryBackends |-> <<>>]
    /\ current_user_id = [b \in InMemoryBackends |-> 1]
    /\ conversations_db = [b \in InMemoryBackends |-> <<>>]
    /\ fn = FnInit("", "triage")

ChatStep ==
    \/ ChatResolveConversation
    \/ ChatAppendUser
    \/ ChatBuildPrompt
    \/ \E o \in CompletionOutcomes : ChatAttemptCompletion(o)
    \/ ChatCheckCompletion
    \/ ChatSelectFallback
    \/ ChatAppendAssistant
    \/ ChatRespond

\* the Ollama backend
Next ==
    \/ \E a \in BOOLEAN : startup_event(a)
    \/ \E m \in Messages, a \in AgentInputs, c \in ConversationIdInputs :
          ChatReceived(m, a, c, MaxClock)
    \/ ChatStep
    \/ \E c \in HistoryIds : get_chat_history(c)
    \/ \E c \in HistoryIds : clear_chat_history(c)

Spec == Init /\ [][Next]_vars

\* a request being handled is handled to its end: the handler has no
\* suspension point and requests.post returns or raises within its timeout
FairSpec == Spec /\ WF_vars(ChatStep)

\* the Ollama backend on long conversations
StoreChatStep ==
    \/ ChatResolveConversation
    \/ ChatAppendUser
    \/ ChatBuildPrompt
    \/ \E o \in StoreOutcomes : ChatAttemptCompletion(o)
    \/ ChatCheckCompletion
    \/ ChatSelectFallback
    \/ ChatAppendAssistant
    \/ ChatRespond

NextStore ==
    \/ \E a \in BOOLEAN : startup_event(a)
    \/ \E m \in StoreMessages, a \in StoreAgentInputs, c \in StoreConversationIdInputs :
          ChatReceived(m, a, c, MaxStoreClock)
    \/ StoreChatStep
    \/ \E c \in HistoryIds : get_chat_history(c)
    \/ \E c \in HistoryIds : clear_chat_history(c)

SpecStore == Init /\ [][NextStore]_vars

\* the database-backed application
NextApp ==
    \/ \E r \in Registrants : register(r[1], r[2], None)
    \/ \E u \in 1..MaxUsers, f \in FullNames, e \in NewEmails :
          update_user_profile(u, f, e)
    \/ \E u \in 1..MaxUsers : delete_user_account(u)
    \/ \E u \in 1..MaxUsers, a \in Amounts, ok \in BOOLEAN : create_payment_intent(u, a, ok)
    \/ \E v \in WebhookVerifications, t \in EventTypes, i \in 1..(MaxIntents + 1) :
          stripe_webhook(v, t, i)
    \/ \E u \in 1..MaxUsers, m \in AppMessages, a \in AgentInputs, r \in RunOutcomes :
          app_chat_with_ux_agent(u, m, a, r)

SpecApp == Init /\ [][NextApp]_vars

\* the lookups on drawn inputs
InitAgents ==
    /\ started = FALSE
    /\ ollama_available = FALSE
    /\ chat_sessions = <<>>
    /\ next_conversation_id = 1
    /\ clock = 0
    /\ turn = IdleTurn
    /\ reply = NoReply
    /\ appended = <<>>
    /\ users = <<>>
    /\ payments = <<>>
    /\ conversations = <<>>
    /\ stripe_intents = 0
    /\ pending = <<>>
    /\ users_db = [b \in InMemoryBackends |-> <<>>]
    /\ current_user_id = [b \in InMemoryBackends |-> 1]
    /\ conversations_db = [b \in InMemoryBackends |-> <<>>]
    /\ \E m \in ClassifierMessages, a \in ClassifierAgents : fn = FnInit(m, a)

NextAgents ==
    \/ Classify
    \/ ResolvePersona
    \/ \E r \in RunOutcomes : ProcessRequest(r)

SpecAgents == InitAgents /\ [][NextAgents]_vars

\* the Ollama backend with chat requests arriving while a turn is handled
MaxOverlapClock == 6   \* messages stored in a run of the overlap specification
OverlapStep ==
    \/ ChatStart(MaxOverlapClock)
    \/ StoreChatStep

NextOverlap ==
    \/ \E a \in BOOLEAN : startup_event(a)
    \/ \E m \in Messages, a \in StoreAgentInputs, c \in StoreConversationIdInputs :
          ChatArrive(m, a, c, MaxOverlapClock)
    \/ OverlapStep

\* a request that has arrived is handled, and handled to its end
SpecOverlap == Init /\ [][NextOverlap]_vars /\ WF_vars(OverlapStep)

\* the Ollama backend with chat requests for one long conversation arriving
\* while a turn is handled
MaxOverlapStoreClock == 24   \* messages stored in a run of this specification
NextOverlapStore ==
    \/ \E a \in BOOLEAN : startup_event(a)
    \/ \E m \in Messages, a \in StoreAgentInputs, c \in StoreConversationIdInputs :
          ChatArrive(m, a, c, MaxOverlapStoreClock)
    \/ ChatStart(MaxOverlapStoreClock)
    \/ StoreChatStep

SpecOverlapStore == Init /\ [][NextOverlapStore]_vars

\* the Ollama backend with chat requests, naming a conversation or not,
\* arriving while a turn is handled
NextOverlapIds ==
    \/ \E a \in BOOLEAN : startup_event(a)
    \/ \E m \in StoreMessages, a \in StoreAgentInputs, c \in ConversationIdInputs :
          ChatArrive(m, a, c, MaxOverlapClock)
    \/ ChatStart(MaxOverlapClock)
    \/ StoreChatStep

SpecOverlapIds == Init /\ [][NextOverlapIds]_vars

\* the chat and conversation routes of the three backend variants side by
\* side: the Ollama backend, the application and llm_backend
MaxBackendsClock == 2  \* messages stored by the Ollama backend in a run of this specification
BackendsConversationIds == {1, 3}
BackendsOutcomes ==
    { Http("200", "json", "When I onboard, I want guidance, so I can start."),
      Raised("Connection refused") }

BackendsChatStep ==
    \/ ChatResolveConversation
    \/ ChatAppendUser
    \/ ChatBuildPrompt
    \/ \E o \in BackendsOutcomes : ChatAttemptCompletion(o)
    \/ ChatCheckCompletion
    \/ ChatSelectFallback
    \/ ChatAppendAssistant
    \/ ChatRespond

NextBackends ==
    \/ \E a \in BOOLEAN : startup_event(a)
    \/ \E m \in StoreMessages, a \in StoreAgentInputs, c \in BackendsConversationIds :
          ChatReceived(m, a, <<c>>, MaxBackendsClock)
    \/ BackendsChatStep
    \/ \E c \in BackendsConversationIds : get_chat_history(c)
    \/ \E c \in BackendsConversationIds : clear_chat_history(c)
    \/ register("ann@example.com", "ann", None)
    \/ \E a \in Amounts : create_payment_intent(1, a, TRUE)
    \/ stripe_webhook("verified", "payment_intent.succeeded", 1)
    \/ \E m \in AppMessages, a \in StoreAgentInputs, r \in RunOutcomes :
          app_chat_with_ux_agent(1, m, a, r)
    \/ \E c \in 1..(MaxConversations + 1) : get_conversation(1, c)
    \/ \E m \in StoreMessages, a \in StoreAgentInputs, c \in Completions :
          llm_chat_with_ux_agent(m, a, c)

SpecBackends == Init /\ [][NextBackends]_vars

\* the conversation routes of the application with two users
NextConversations ==
    \/ \E r \in Registrants : register(r[1], r[2], None)
    \/ \E u \in 1..MaxUsers, a \in Amounts : create_payment_intent(u, a, TRUE)
    \/ \E i \in 1..MaxIntents : stripe_webhook("verified", "payment_intent.succeeded", i)
    \/ \E u \in 1..MaxUsers, m \in AppMessages, a \in StoreAgentInputs, r \in RunOutcomes :
          app_chat_with_ux_agent(u, m, a, r)
    \/ \E u \in 1..MaxUsers, t \in Titles, a \in StoreAgentInputs :
          create_conversation(u, t, a, MaxOwnedConversations)
    \/ \E u \in 1..MaxUsers : get_user_conversations(u)
    \/ \E u \in 1..MaxUsers, c \in 1..MaxOwnedConversations : get_conversation(u, c)

SpecConversations == Init /\ [][NextConversations]_vars

\* the in-memory backends
NextInMemory ==
    \/ \E r \in Registrants, pw \in Passwords : llm_register(r[1], r[2], pw)
    \/ \E r \in Registrants, f \in FullNames : simple_register(r[1], r[2], f)
    \/ \E m \in Messages, a \in AgentInputs, c \in Completions :
          llm_chat_with_ux_agent(m, a, c)

SpecInMemory == Init /\ [][NextInMemory]_vars

\* search_knowledge on drawn knowledge bases and queries
InitKnowledge ==
    /\ started = FALSE
    /\ ollama_available = FALSE
    /\ chat_sessions = <<>>
    /\ next_conversation_id = 1
    /\ clock = 0
    /\ turn = IdleTurn
    /\ reply = NoReply
    /\ appended = <<>>
    /\ users = <<>>
    /\ payments = <<>>
    /\ conversations = <<>>
    /\ stripe_intents = 0
    /\ pending = <<>>
    /\ users_db = [b \in InMemoryBackends |-> <<>>]
    /\ current_user_id = [b \in InMemoryBackends |-> 1]
    /\ conversations_db = [b \in InMemoryBackends |-> <<>>]
    /\ \E kb \in KnowledgeBases, q \in Queries, m \in MaxResults :
          fn = KnowledgeInit(kb, q, m)

NextKnowledge == SearchKnowledge

SpecKnowledge == InitKnowledge /\ [][NextKnowledge]_vars

(***************************************************************************)
(* Properties of the Ollama backend.                                       *)
(***************************************************************************)
Last(s) == s[Len(s)]

\* the completion call raised or answered with a status outside 2xx
CompletionFailed(o) ==
    \/ o.kind = "exception"
    \/ o.kind = "http" /\ SubSeq(o.status, 1, 1) # "2"

\* C1: every chat request received by the Ollama backend is eventually
\* answered with status 200, a response text and the conversation id of the
\* turn, whatever the completion service did.
C1_EveryTurnResponds ==
    (turn.pc = "received") ~>
        (/\ turn.pc = "responded"
         /\ reply.op = "chat" /\ reply.status = 200
         /\ reply.response = turn.response /\ reply.response # ""
         /\ reply.conversation_id = turn.cid
         /\ reply.conversation_id \in DOMAIN chat_sessions)

C1_Witness ==
    /\ turn.pc = "responded"
    /\ turn.outcome = Raised("Read timed out.")
    /\ reply.op = "chat" /\ reply.status = 200
    /\ reply.conversation_id = 2

\* C2: when the completion call raised or returned a non-2xx status, the
\* response returned and the assistant message stored are the Fallback
\* Classifier's output for (message, agent_type), and the error string of
\* the completion call is neither returned nor stored.
C2_FailureGivesFallback ==
    (turn.pc = "responded" /\ reply.op = "chat" /\ CompletionFailed(turn.outcome)) =>
        /\ reply.response = get_smart_fallback_response(turn.message, turn.agent_type)
        /\ Last(chat_sessions[turn.cid]).role = "assistant"
        /\ Last(chat_sessions[turn.cid]).content = reply.response
        /\ reply.response # turn.raw
        /\ \A n \in DOMAIN chat_sessions[turn.cid] :
              chat_sessions[turn.cid][n].content # turn.raw

C2_Witness ==
    /\ turn.pc = "responded"
    /\ turn.outcome = Http("500", "json", "model not found")
    /\ turn.raw = "Ollama API error: 500"
    /\ reply.response = JobStoryResponse

\* C3: every conversation's log holds at most 20 messages.
C3_LogBounded ==
    \A id \in DOMAIN chat_sessions : Len(chat_sessions[id]) <= 20

C3_Witness ==
    \E id \in DOMAIN chat_sessions :
        Len(appended[id]) = 21 /\ Len(chat_sessions[id]) = 20

\* C4: after n appends since creation or the last clear, the log is the last
\* min(n, 20) appended messages, in the order they were appended.
C4_LogIsRecentSuffix ==
    \A id \in DOMAIN chat_sessions :
        LET n == Len(appended[id])
            k == IF n < 20 THEN n ELSE 20
        IN  /\ Len(chat_sessions[id]) = k
            /\ \A j \in 1..k : chat_sessions[id][j] = appended[id][n - k + j]

C4_Witness ==
    \E id \in DOMAIN chat_sessions :
        /\ Len(appended[id]) = 22
        /\ chat_sessions[id][1] = appended[id][3]
        /\ chat_sessions[id][20] = appended[id][22]
        /\ chat_sessions[id][1].timestamp < chat_sessions[id][20].timestamp

\* C5: resolving the conversation of a request returns the given id and
\* changes neither store nor counter when the id names an existing
\* conversation; otherwise it allocates a conversation with an empty log
\* under an id greater than every id allocated before (1 on a fresh
\* process), and leaves the other conversations alone.
C5_GetOrCreate ==
    [][(turn.pc = "received" /\ turn'.pc = "conversation_resolved") =>
        IF turn.conversation_id # None /\ turn.conversation_id[1] \in DOMAIN chat_sessions
        THEN /\ turn'.cid = turn.conversation_id[1]
             /\ chat_sessions' = chat_sessions
             /\ next_conversation_id' = next_conversation_id
        ELSE /\ turn'.cid \notin DOMAIN chat_sessions
             /\ \A i \in DOMAIN chat_sessions : turn'.cid > i
             /\ DOMAIN chat_sessions = {} => turn'.cid = 1
             /\ DOMAIN chat_sessions' = DOMAIN chat_sessions \cup {turn'.cid}
             /\ chat_sessions'[turn'.cid] = <<>>
             /\ \A i \in DOMAIN chat_sessions : chat_sessions'[i] = chat_sessions[i]
             /\ next_conversation_id' > turn'.cid
      ]_vars

C5_Witness ==
    /\ turn.pc = "conversation_resolved"
    /\ turn.conversation_id = <<2>>
    /\ turn.cid = 2
    /\ 1 \in DOMAIN chat_sessions /\ chat_sessions[1] = <<>>
    /\ clock = 2

(***************************************************************************)
(* Properties of a chat turn of the Ollama backend.                        *)
(***************************************************************************)
\* list[:-1]
Front(s) == SubSeq(s, 1, Len(s) - 1)

\* the prompt of the statement: persona, then the last 4 messages of the
\* given history as "Role: content" lines, then the new user message
PromptOver(agent_type, history, message) ==
    agent_config(agent_type)
    \o (IF history # <<>>
        THEN "\n\nRecent conversation history:\n"
             \o history_lines(LastN(history, 4), 1)
             \o "\n\nImportant instructions:"
        ELSE "")
    \o "\n\nUser: " \o message \o "\n\nAssistant:"

\* C11 as stated: the prompt built for a turn is the persona's system
\* prompt, then at most the last 4 messages of the history as it stood
\* before the turn, each as "Role: content", then the new user message, which
\* is not one of the history lines.
C11_Original ==
    (turn.pc = "prompt_built") =>
        turn.prompt = PromptOver(turn.agent_type, Front(chat_sessions[turn.cid]), turn.message)

\* the steps of a turn, as pairs of positions
TurnOrder ==
    { <<"idle", "received">>, <<"responded", "received">>,
      <<"received", "conversation_resolved">>,
      <<"conversation_resolved", "user_appended">>,
      <<"user_appended", "prompt_built">>,
      <<"user_appended", "fallback_selected">>,
      <<"prompt_built", "completion_attempted">>,
      <<"completion_attempted", "completion_ok">>,
      <<"completion_attempted", "completion_failed">>,
      <<"completion_failed", "fallback_selected">>,
      <<"completion_ok", "message_appended">>,
      <<"fallback_selected", "message_appended">>,
      <<"message_appended", "responded">> }

\* a step stored a message
Stored == clock' # clock

CompletionText2xx(o) ==
    /\ o.kind = "http" /\ SubSeq(o.status, 1, 1) = "2"
    /\ o.body = "json"
    /\ ~is_error_response(o.text)

\* C13 as stated: when the completion endpoint answers with a 2xx status and
\* a completion text without the upstream-failure pattern, the response
\* returned and the assistant message stored are exactly that text.
C13_Original ==
    (turn.pc = "responded" /\ reply.op = "chat" /\ CompletionText2xx(turn.outcome)) =>
        /\ reply.response = turn.outcome.text
        /\ Last(chat_sessions[turn.cid]).content = turn.outcome.text

\* C13 amended: when the completion endpoint answers with status 200 and a
\* completion text without the upstream-failure pattern, the response
\* returned and the assistant message stored are exactly that text; any
\* other status, 2xx included, is a failure and gives the fallback response.
C13_SuccessUnmodified ==
    (turn.pc = "responded" /\ reply.op = "chat" /\ CompletionText2xx(turn.outcome)) =>
        IF turn.outcome.status = "200"
        THEN /\ reply.response = turn.outcome.text
             /\ Last(chat_sessions[turn.cid]).role = "assistant"
             /\ Last(chat_sessions[turn.cid]).content = turn.outcome.text
        ELSE /\ turn.raw = "Ollama API error: " \o turn.outcome.status
             /\ reply.response = get_smart_fallback_response(turn.message, turn.agent_type)
             /\ Last(chat_sessions[turn.cid]).content = reply.response

C13_Witness ==
    /\ turn.pc = "responded" /\ reply.op = "chat"
    /\ turn.outcome = Http("200", "json", "When I onboard, I want guidance, so I can start.")
    /\ turn.message = "How do I write a Job Story?"
    /\ reply.response = "When I onboard, I want guidance, so I can start."
    /\ Last(chat_sessions[turn.cid]).content = reply.response

\* C14: a chat turn sends at most one request to the completion endpoint;
\* once the request has been sent, whatever its outcome (error status,
\* exception, timeout), no step of the turn sends it again.
C14_NoRetry ==
    [][turn'.pc # "received" =>
          /\ turn'.calls <= 1
          /\ turn'.calls # turn.calls =>
                (turn.pc = "prompt_built" /\ turn'.pc = "completion_attempted")
          /\ turn.pc = "completion_failed" => turn'.pc = "fallback_selected"
      ]_vars

C14_Witness ==
    /\ turn.pc = "responded" /\ reply.op = "chat"
    /\ turn.outcome = Raised("Read timed out.")
    /\ turn.calls = 1
    /\ reply.response = MOCK_RESPONSES["writing"]

\* the turn under way has stored its user message and not yet its assistant
\* message
BetweenAppends ==
    turn.pc \in {"user_appended", "prompt_built", "completion_attempted",
                 "completion_failed", "completion_ok", "fallback_selected"}

\* a second request on the conversation of the turn under way has arrived
Overlap ==
    /\ BetweenAppends
    /\ \E n \in DOMAIN pending : pending[n].conversation_id = <<turn.cid>>

\* a log holds the user messages of two turns before the assistant response
\* of either
Interleaved ==
    \E id \in DOMAIN appended : \E j \in 1..(Len(appended[id]) - 1) :
        appended[id][j].role = "user" /\ appended[id][j + 1].role = "user"

\* C19 as stated: when two chat turns on the same conversation overlap in
\* time, their appends interleave: a state is reached in which the log holds
\* both turns' user messages before either turn's assistant response.
C19_Original == Overlap ~> Interleaved

\* C19 amended: chat turns on the same conversation do not interleave.  A
\* request that arrives while a turn is handled waits until that turn has
\* responded, so in every log each user message is directly followed by the
\* assistant message of its own turn, the last user message excepted while
\* its turn is under way; no log ever holds the user messages of two turns
\* before the assistant response of either.
C19_TurnsSerialized ==
    /\ ~Interleaved
    /\ \A id \in DOMAIN appended :
          /\ \A j \in DOMAIN appended[id] :
                appended[id][j].role = (IF j % 2 = 1 THEN "user" ELSE "assistant")
          /\ Len(appended[id]) % 2 = 1 => (BetweenAppends /\ turn.cid = id)
    /\ BetweenAppends =>
          /\ Last(appended[turn.cid]).role = "user"
          /\ Last(appended[turn.cid]).content = turn.message

C19_Witness ==
    /\ Overlap
    /\ turn.pc = "completion_attempted"
    /\ Len(appended[turn.cid]) = 3
    /\ pending[1].conversation_id = <<turn.cid>>
    /\ pending[1].message # turn.message

\* C28: with chat requests arriving while other turns are handled, no
\* appended message is lost except by the front trim: every step that stores
\* a message puts it at the end of its conversation's log and changes no
\* other log, no other step changes a log, and each log is always the last
\* min(n, 20) of the n messages appended to it, in the order their appends
\* took effect (increasing timestamps).
C28_NoLostAppend ==
    [][/\ \A id \in DOMAIN chat_sessions' :
            /\ chat_sessions'[id] =
                  LastN(appended'[id], IF Len(appended'[id]) < HistoryLimit
                                       THEN Len(appended'[id]) ELSE HistoryLimit)
            /\ \A j \in 1..(Len(chat_sessions'[id]) - 1) :
                  chat_sessions'[id][j].timestamp < chat_sessions'[id][j + 1].timestamp
       /\ Stored =>
            /\ Len(appended'[turn.cid]) = Len(appended[turn.cid]) + 1
            /\ SubSeq(appended'[turn.cid], 1, Len(appended[turn.cid])) = appended[turn.cid]
            /\ Last(chat_sessions'[turn.cid]) = Last(appended'[turn.cid])
            /\ Last(chat_sessions'[turn.cid]).timestamp = clock
            /\ \A id \in DOMAIN chat_sessions \ {turn.cid} :
                  chat_sessions'[id] = chat_sessions[id]
       /\ ~Stored => \A id \in DOMAIN chat_sessions : chat_sessions'[id] = chat_sessions[id]
      ]_vars

\* the log of conversation 1 has been trimmed by a turn's user message while
\* a request with another message for the same conversation is waiting
C28_Witness ==
    /\ turn.pc = "completion_attempted" /\ turn.cid = 1
    /\ Len(appended[1]) = HistoryLimit + 1 /\ Len(chat_sessions[1]) = HistoryLimit
    /\ Last(chat_sessions[1]).content = turn.message
    /\ pending # <<>>
    /\ pending[1].conversation_id = <<1>> /\ pending[1].message # turn.message

\* a step that resolved the conversation of the request being handled
Resolved == turn.pc = "received" /\ turn'.pc = "conversation_resolved"

\* the request names no conversation of the store
NamesNoConversation(conversation_id) ==
    conversation_id = None \/ conversation_id[1] \notin DOMAIN chat_sessions

\* C29 as stated: two concurrent chat requests that both omit
\* conversation_id or name unknown ids are assigned distinct conversation
\* identifiers with separate logs: when the conversation of one is resolved
\* while the other waits, the identifier handed out is not one that the
\* waiting request will be given.
C29_Original ==
    [][(/\ Resolved
        /\ NamesNoConversation(turn.conversation_id)
        /\ pending # <<>>
        /\ NamesNoConversation(pending[1].conversation_id)) =>
            (pending[1].conversation_id # None =>
                 pending[1].conversation_id[1] # turn'.cid)
      ]_vars

\* C29 amended: a request whose conversation_id is omitted, or names no
\* conversation at the moment its handler resolves it, is given the counter's
\* value, which is the id of no existing conversation, with a new empty log,
\* and the counter is incremented in the same step; no other step changes the
\* counter or the set of conversations, so two such resolutions never hand
\* out the same identifier.  A request naming an identifier that a concurrent
\* request was given before it is handled joins that conversation.
C29_DistinctIds ==
    [][/\ Resolved =>
            IF NamesNoConversation(turn.conversation_id)
            THEN /\ turn'.cid = next_conversation_id
                 /\ turn'.cid \notin DOMAIN chat_sessions
                 /\ next_conversation_id' = next_conversation_id + 1
                 /\ DOMAIN chat_sessions' = DOMAIN chat_sessions \cup {turn'.cid}
                 /\ chat_sessions'[turn'.cid] = <<>>
                 /\ \A i \in DOMAIN chat_sessions : chat_sessions'[i] = chat_sessions[i]
            ELSE /\ turn'.cid = turn.conversation_id[1]
                 /\ UNCHANGED <<chat_sessions, next_conversation_id>>
       /\ ~Resolved =>
            /\ next_conversation_id' = next_conversation_id
            /\ DOMAIN chat_sessions' = DOMAIN chat_sessions
       /\ \A i \in DOMAIN chat_sessions' : i < next_conversation_id'
      ]_vars

\* the second of two requests that omitted conversation_id has been given
\* conversation 2, with an empty log, while conversation 1 holds the first
\* turn's messages and a third request is waiting
C29_Witness ==
    /\ turn.pc = "conversation_resolved"
    /\ turn.conversation_id = None /\ turn.cid = 2
    /\ DOMAIN chat_sessions = {1, 2}
    /\ Len(chat_sessions[1]) = 2 /\ chat_sessions[2] = <<>>
    /\ pending # <<>> /\ pending[1].conversation_id = None

(***************************************************************************)
(* Properties of the Fallback Classifier and of agent resolution.          *)
(***************************************************************************)
\* the categories in the order the specification lists them
CategoryOrder ==
    << [keywords |-> JobStoryKeywords,  response |-> JobStoryResponse],
       [keywords |-> StrategyKeywords,  response |-> StrategyResponse],
       [keywords |-> UsabilityKeywords, response |-> UsabilityResponse],
       [keywords |-> UserFlowKeywords,  response |-> UserFlowResponse],
       [keywords |-> AnalyticsKeywords, response |-> AnalyticsResponse],
       [keywords |-> WorkflowKeywords,  response |-> WorkflowResponse],
       [keywords |-> ResearchKeywords,  response |-> ResearchResponse] >>

\* the categories having a keyword that is a substring of the lower-cased message
MatchingCategories(message) ==
    {c \in DOMAIN CategoryOrder :
        \E n \in DOMAIN CategoryOrder[c].keywords :
            contains(CategoryOrder[c].keywords[n], lower(message))}

C25_Original ==
    fn.classified =>
        \A c \in DOMAIN CategoryOrder :
            (\E n \in DOMAIN CategoryOrder[c].keywords :
                 fn.message = CategoryOrder[c].keywords[n]) =>
                fn.fallback = CategoryOrder[c].response

\* C7 as stated: for an agent identifier outside the four known ones, the
\* persona lookup, the classifier's default and the agent service all
\* resolve to triage and end without an error outcome.
C7_Original ==
    (fn.agent_type \notin AgentIds) =>
        /\ fn.resolved => fn.persona = AGENT_CONFIGS["triage"]
        /\ (fn.classified /\ MatchingCategories(fn.message) = {}) =>
              fn.fallback = MOCK_RESPONSES["triage"]
        /\ fn.processed => fn.service.success

\* C7 amended: for an agent identifier outside the four known ones, the
\* persona lookup and the classifier's default of the Ollama backend resolve
\* to triage, while the agent service's process_request does not fall back:
\* it returns success = false with the error "Unknown agent type: <id>".
C7_UnknownAgent ==
    (fn.agent_type \notin AgentIds) =>
        /\ fn.resolved => fn.persona = AGENT_CONFIGS["triage"]
        /\ (fn.classified /\ MatchingCategories(fn.message) = {}) =>
              fn.fallback = MOCK_RESPONSES["triage"]
        /\ fn.processed =>
              /\ ~fn.service.success
              /\ fn.service.error = "Unknown agent type: " \o fn.agent_type
              /\ fn.service.agent_used = fn.agent_type

C7_Witness ==
    /\ fn.agent_type = "designer" /\ fn.message = "hello"
    /\ fn.resolved /\ fn.classified /\ fn.processed
    /\ fn.persona = AGENT_CONFIGS["triage"]
    /\ fn.fallback = MOCK_RESPONSES["triage"]
    /\ ~fn.service.success

(***************************************************************************)
(* Properties of the Knowledge Lookup.                                     *)
(***************************************************************************)
\* the positions at which q occurs in s, both lower-cased
OccurrencePositions(q, s) ==
    {i \in 1..(Len(s) - Len(q) + 1) : SubSeq(lower(s), i, i + Len(q) - 1) = lower(q)}

\* the number of case-insensitive occurrences of q in s: the most
\* occurrences that can be picked without two of them overlapping
Occurrences(q, s) ==
    LET P == OccurrencePositions(q, s)
        Disjoint == {S \in SUBSET P : \A a, b \in S : a # b => (a - b >= Len(q) \/ b - a >= Len(q))}
    IN  CHOOSE k \in 0..Cardinality(P) :
            /\ \E S \in Disjoint : Cardinality(S) = k
            /\ \A S \in Disjoint : Cardinality(S) <= k

\* C15: search_knowledge(Q, max_results) returns only documents whose
\* content contains Q as a case-insensitive substring, each once and with
\* relevance equal to the number of case-insensitive occurrences of Q in its
\* content, never zero, in descending order of relevance; it returns
\* min(max_results, number of matching documents) entries, no omitted
\* matching document having a higher relevance than a returned one, and the
\* empty list when no document contains Q.
C15_SearchKnowledge ==
    fn.searched =>
        LET kb == fn.knowledge_base
            R == fn.results
            Matching == {d \in DOMAIN kb : OccurrencePositions(fn.query, kb[d].content) # {}}
            Returned == {d \in Matching : \E i \in DOMAIN R : R[i].document = kb[d].id}
        IN  /\ \A i \in DOMAIN R :
                  \E d \in Matching :
                      /\ R[i].document = kb[d].id
                      /\ R[i].relevance = Occurrences(fn.query, kb[d].content)
                      /\ R[i].relevance > 0
            /\ \A i, j \in DOMAIN R : R[i].document = R[j].document => i = j
            /\ \A i, j \in DOMAIN R : i < j => R[i].relevance >= R[j].relevance
            /\ Len(R) = IF Cardinality(Matching) < fn.max_results
                        THEN Cardinality(Matching) ELSE fn.max_results
            /\ \A d \in Matching \ Returned : \A i \in DOMAIN R :
                  Occurrences(fn.query, kb[d].content) <= R[i].relevance
            /\ Matching = {} => R = <<>>

C15_Witness ==
    /\ fn.searched
    /\ fn.query = "FLOW" /\ fn.max_results = 2
    /\ Len(fn.knowledge_base) = 3
    /\ fn.knowledge_base[1].id = "research" /\ fn.knowledge_base[2].id = "journeys"
    /\ fn.knowledge_base[3].id = "flows"
    /\ Len(fn.results) = 2
    /\ fn.results[1].document = "flows" /\ fn.results[1].relevance = 3
    /\ fn.results[2].document = "journeys" /\ fn.results[2].relevance = 2

(***************************************************************************)
(* Properties of the backend variants side by side.                        *)
(***************************************************************************)
\* a step that answered a request of the given kind
Answered(op) == reply' # reply /\ reply'.op = op

\* a step that answered a request of the given kind on a conversation id
\* of the Ollama backend that names no conversation
AnsweredUnknown(op) ==
    Answered(op) /\ reply'.conversation_id \notin DOMAIN chat_sessions

\* a step that resolved the conversation of a chat request naming an id
\* that names no conversation
ResolvedUnknown ==
    /\ turn.pc = "received" /\ turn'.pc = "conversation_resolved"
    /\ turn.conversation_id # None
    /\ turn.conversation_id[1] \notin DOMAIN chat_sessions

\* a step that answered the application's get_conversation for an id that
\* names no conversation of the requesting user
AnsweredUnknownApp ==
    /\ Answered("get_conversation")
    /\ ~(/\ reply'.id \in DOMAIN conversations
         /\ conversations[reply'.id].user_id = reply'.user)

\* C17 as stated: a request naming a conversation id that does not exist
\* (reading it, clearing it, chatting into it) is answered with a 4xx error
\* and creates or modifies no conversation.
C17_Original ==
    [][/\ AnsweredUnknown("get_chat_history") =>
            (reply'.status \in 400..499 /\ chat_sessions' = chat_sessions)
       /\ AnsweredUnknown("clear_chat_history") =>
            (reply'.status \in 400..499 /\ chat_sessions' = chat_sessions)
       /\ ResolvedUnknown => chat_sessions' = chat_sessions
       /\ AnsweredUnknownApp =>
            (reply'.status \in 400..499 /\ conversations' = conversations)
      ]_vars

\* C17 amended: only the application answers an unknown conversation id
\* with a 4xx error: its get_conversation answers 404 "Conversation not
\* found" and changes nothing.  In the Ollama backend, reading an id that
\* names no conversation is answered 200 with an empty message list and
\* clearing it is answered 200 with a message saying that it was not found,
\* neither creating nor modifying a conversation; chatting into it creates
\* a conversation with an empty log under the next counter value and the
\* turn goes on under that id, the other conversations being left alone.
C17_UnknownConversation ==
    [][/\ AnsweredUnknown("get_chat_history") =>
            /\ reply'.status = 200 /\ reply'.messages = <<>>
            /\ chat_sessions' = chat_sessions
       /\ AnsweredUnknown("clear_chat_history") =>
            /\ reply'.status = 200 /\ reply'.message = "not found"
            /\ chat_sessions' = chat_sessions
       /\ ResolvedUnknown =>
            /\ turn'.cid = next_conversation_id
            /\ DOMAIN chat_sessions' = DOMAIN chat_sessions \cup {turn'.cid}
            /\ chat_sessions'[turn'.cid] = <<>>
            /\ \A i \in DOMAIN chat_sessions : chat_sessions'[i] = chat_sessions[i]
       /\ (turn.pc = "message_appended" /\ turn'.pc = "responded") =>
            /\ reply'.op = "chat" /\ reply'.status = 200
            /\ reply'.conversation_id = turn.cid
       /\ AnsweredUnknownApp =>
            /\ reply'.status = 404 /\ reply'.detail = "Conversation not found"
            /\ conversations' = conversations
      ]_vars

C17_Witness ==
    /\ reply.op = "get_conversation" /\ reply.status = 404 /\ reply.id = 2
    /\ Len(conversations) = 1
    /\ turn.pc = "responded" /\ turn.conversation_id = <<3>> /\ turn.cid = 1
    /\ DOMAIN chat_sessions = {1} /\ Len(chat_sessions[1]) = 2

\* the texts Runner.run can return
RunTexts == {r[1] : r \in RunOutcomes \ {None}}

LlmApology ==
    "I apologize, but I'm experiencing technical difficulties. Please try again later. (Error: "
    \o LlmError \o ")"

\* C18 as stated: in every backend variant's chat endpoint a failure of the
\* completion service is converted into a fallback response: the request is
\* answered successfully with a response text, never with an HTTP error.
C18_Original ==
    /\ reply.op \in {"chat", "llm_chat"} => (reply.status = 200 /\ reply.response # "")
    /\ (reply.op = "app_chat" /\ reply.status # 403) =>
          (reply.status = 200 /\ reply.response # "")

\* C18 amended: a failure of the completion service during a chat turn is
\* converted into a response text and answered 200 by the Ollama backend
\* (the Fallback Classifier's text) and by llm_backend (a fixed apology
\* quoting the error), both storing that text as the assistant message.  The
\* application has no fallback: process_request catches the failure and the
\* chat route answers HTTP 500 with the error in its detail and records no
\* conversation; a 200 answer of the application always carries the text
\* the agent run returned.
C18_CompletionFailure ==
    [][/\ (Answered("chat") /\ CompletionFailed(turn.outcome)) =>
            /\ reply'.status = 200
            /\ reply'.response = get_smart_fallback_response(turn.message, turn.agent_type)
            /\ Last(chat_sessions'[turn.cid]).content = reply'.response
       /\ Answered("llm_chat") =>
            /\ reply'.status = 200
            /\ reply'.response \in {LlmApology} \cup {c[1] : c \in Completions \ {None}}
            /\ Len(conversations_db'["llm_backend"]) = Len(conversations_db["llm_backend"]) + 1
            /\ conversations_db'["llm_backend"][reply'.conversation_id].messages[2].content
                  = reply'.response
       /\ (Answered("app_chat") /\ reply'.status # 403) =>
            IF reply'.status = 200
            THEN /\ reply'.response \in RunTexts
                 /\ Len(conversations') = Len(conversations) + 1
            ELSE /\ reply'.status = 500
                 /\ reply'.detail = "Error processing request: 500: "
                                    \o "Agent processing failed: Runner.run failed"
                 /\ conversations' = conversations
      ]_vars

C18_Witness ==
    /\ reply.op = "app_chat" /\ reply.status = 500
    /\ users[1].is_premium /\ conversations = <<>>
    /\ turn.pc = "responded" /\ turn.outcome = Raised("Connection refused")
    /\ Len(chat_sessions[turn.cid]) = 2
    /\ Last(chat_sessions[turn.cid]).content = MOCK_RESPONSES["triage"]
    /\ Len(conversations_db["llm_backend"]) = 1
    /\ conversations_db["llm_backend"][1].messages[2].content = LlmApology

\* C27 as stated: the agent_used field of every chat response names the
\* agent whose persona or default response was used for the turn, so it is
\* always one of the four known agents, an unknown requested identifier
\* being reported as triage.
C27_Original ==
    (reply.op = "chat" /\ turn.pc = "responded") =>
        /\ reply.agent_used \in AgentIds
        /\ reply.agent_used = IF turn.agent_type \in AgentIds THEN turn.agent_type
                              ELSE "triage"

\* C30: the availability flag is set once, at startup, and never changes
\* afterwards.  In a process where it is false no chat turn calls the
\* completion service and every response is the Fallback Classifier's; in a
\* process where it is true every chat turn calls it, once, before
\* responding, whatever the outcomes of earlier calls were.
C30_FlagFixedAtStartup ==
    [][/\ started => (started' /\ ollama_available' = ollama_available)
       /\ ~started => (turn' = turn /\ chat_sessions' = chat_sessions)
       /\ turn'.calls > turn.calls => ollama_available
       /\ (turn.pc = "message_appended" /\ turn'.pc = "responded") =>
            IF ollama_available
            THEN turn.calls = 1 /\ turn.outcome # NoOutcome
            ELSE /\ turn.calls = 0 /\ turn.outcome = NoOutcome
                 /\ reply'.response =
                       get_smart_fallback_response(turn.message, turn.agent_type)
      ]_vars

\* in a process where the flag is true, the turn after one whose completion
\* call failed has called the completion service again
C30_Witness ==
    /\ ollama_available
    /\ turn.pc = "completion_attempted" /\ turn.calls = 1
    /\ turn.outcome.kind = "http" /\ turn.outcome.status = "200"
    /\ Len(chat_sessions[turn.cid]) = 3
    /\ chat_sessions[turn.cid][2].role = "assistant"
    /\ chat_sessions[turn.cid][2].content = JobStoryResponse

\* C23: clearing the history of an existing conversation empties that
\* conversation's log and nothing else: its id stays allocated, the other
\* logs and the id counter are unchanged, and a later chat turn naming the id
\* is resolved to the same conversation without allocating; clearing or
\* reading an unknown id changes nothing in the store.
C23_ClearKeepsId ==
    [][/\ DOMAIN chat_sessions \subseteq DOMAIN chat_sessions'
       /\ Answered("clear_chat_history") =>
            /\ next_conversation_id' = next_conversation_id
            /\ DOMAIN chat_sessions' = DOMAIN chat_sessions
            /\ \A i \in DOMAIN chat_sessions :
                 chat_sessions'[i] = IF i = reply'.conversation_id THEN <<>>
                                     ELSE chat_sessions[i]
            /\ reply'.message = IF reply'.conversation_id \in DOMAIN chat_sessions
                                THEN "cleared" ELSE "not found"
       /\ Answered("get_chat_history") =>
            UNCHANGED <<chat_sessions, next_conversation_id>>
       /\ (/\ turn.pc = "received" /\ turn'.pc = "conversation_resolved"
           /\ turn.conversation_id # None
           /\ turn.conversation_id[1] \in DOMAIN chat_sessions) =>
            /\ turn'.cid = turn.conversation_id[1]
            /\ UNCHANGED <<chat_sessions, next_conversation_id>>
      ]_vars

\* a turn naming conversation 1 has been answered on conversation 1 after
\* that conversation's first two messages were cleared
C23_Witness ==
    /\ turn.pc = "responded" /\ turn.conversation_id = <<1>> /\ turn.cid = 1
    /\ next_conversation_id = 2
    /\ Len(chat_sessions[1]) = 2 /\ Len(appended[1]) = 2
    /\ clock = 4

(***************************************************************************)
(* Properties of the application's conversations and accounts.             *)
(***************************************************************************)
\* the conversations of a user
ConversationsOf(u) == {c \in DOMAIN conversations : conversations[c].user_id = u}

\* C21: every Conversation created by the authenticated routes (chat and
\* create_conversation) carries the id of the requesting user and keeps it;
\* the list endpoint returns exactly the requesting user's conversations and
\* get by id returns a conversation only to its owner: asking for another
\* user's conversation id, like asking for an id that does not exist, is
\* answered 404 "Conversation not found".
C21_ConversationOwnership ==
    [][/\ \A c \in DOMAIN conversations' \ DOMAIN conversations :
            /\ reply'.op \in {"app_chat", "create_conversation"} /\ reply'.status = 200
            /\ conversations'[c].user_id = reply'.user
            /\ get_current_active_user(reply'.user)
       /\ \A c \in DOMAIN conversations :
            c \in DOMAIN conversations' /\ conversations'[c].user_id = conversations[c].user_id
       /\ Answered("get_user_conversations") =>
            reply'.ids = ConversationsOf(reply'.user)
       /\ Answered("get_conversation") =>
            IF reply'.id \in ConversationsOf(reply'.user)
            THEN /\ reply'.status = 200
                 /\ reply'.messages = conversations[reply'.id].messages
            ELSE /\ reply'.status = 404 /\ reply'.detail = "Conversation not found"
      ]_vars

C21_Witness ==
    /\ reply.op = "get_conversation" /\ reply.status = 404
    /\ Len(conversations) = 2
    /\ reply.user = 1 /\ reply.id = 2
    /\ conversations[1].user_id = 1 /\ conversations[1].messages # <<>>
    /\ conversations[2].user_id = 2 /\ conversations[2].messages = <<>>

\* C22: account deletion never removes the user record (no request ever
\* does): it answers 200, sets is_active of the requesting user to false and
\* leaves that user's email, username, full name, is_premium and
\* subscription_id, every other user, the payments and the conversations
\* unchanged.
C22_SoftDelete ==
    [][/\ \A i \in DOMAIN users : i \in DOMAIN users'
       /\ Answered("delete_user_account") =>
            /\ reply'.status = 200
            /\ users[reply'.user].is_active /\ ~users'[reply'.user].is_active
            /\ DOMAIN users' = DOMAIN users
            /\ \A i \in DOMAIN users :
                 /\ users'[i].email = users[i].email
                 /\ users'[i].username = users[i].username
                 /\ users'[i].full_name = users[i].full_name
                 /\ users'[i].is_premium = users[i].is_premium
                 /\ users'[i].subscription_id = users[i].subscription_id
                 /\ i # reply'.user => users'[i].is_active = users[i].is_active
            /\ UNCHANGED <<payments, conversations>>
      ]_vars

C22_Witness ==
    /\ reply.op = "delete_user_account"
    /\ Len(users) = 2
    /\ ~users[reply.user].is_active
    /\ users[reply.user].is_premium /\ users[reply.user].subscription_id # None
    /\ \E i \in DOMAIN users : i # reply.user /\ users[i].is_active
    /\ \E p \in DOMAIN payments : payments[p].user_id = reply.user

\* C24: on the authenticated chat route a request of a user whose
\* is_premium is false is answered 403 whatever the agent would have done
\* with it (known or unknown agent, run succeeding or failing) and creates no
\* Conversation; a Conversation is created only by a request of a premium
\* user whose agent processing succeeded, and holds that run's text.
C24_PremiumGate ==
    [][/\ (Answered("app_chat") /\ ~users[reply'.user].is_premium) =>
            /\ reply'.status = 403
            /\ UNCHANGED conversations
       /\ (Answered("app_chat") /\ reply'.status # 200) => UNCHANGED conversations
       /\ conversations' # conversations =>
            /\ reply'.op = "app_chat" /\ reply'.status = 200
            /\ users[reply'.user].is_premium
            /\ reply'.agent_used \in AgentIds
            /\ reply'.response \in RunTexts
            /\ conversations' = Append(conversations, conversations'[Len(conversations')])
            /\ conversations'[Len(conversations')].messages[2].content = reply'.response
      ]_vars

\* a user who has asked for a payment that has not succeeded is refused
C24_Witness ==
    /\ reply.op = "app_chat" /\ reply.status = 403
    /\ ~users[reply.user].is_premium
    /\ \E p \in DOMAIN payments : payments[p].user_id = reply.user /\ payments[p].status = "pending"
    /\ conversations = <<>>

\* C26 as stated: in every reachable state of the payment flow a user whose
\* is_premium is true has at least one linked Payment whose status is
\* "succeeded".
C26_Original ==
    \A u \in DOMAIN users :
        users[u].is_premium =>
            \E p \in DOMAIN payments :
                payments[p].user_id = u /\ payments[p].status = "succeeded"

(***************************************************************************)
(* Properties of the in-memory backends.                                   *)
(***************************************************************************)
\* C20: in each in-memory backend, a register request answered with 400
\* leaves the user table and the id counter unchanged; a request is accepted
\* only when neither its email nor its username is that of a user already
\* registered, and it is stored under the counter's value; hence no two
\* users share an email or a username, every user is stored under its own
\* id, and the counter is above every id in use.
C20_RegisterUnique ==
    [][\A b \in InMemoryBackends :
          LET old == users_db[b]
              new == users_db'[b]
          IN  /\ (reply'.op = "register" /\ reply'.backend = b /\ reply'.status = 400) =>
                    /\ new = old
                    /\ current_user_id'[b] = current_user_id[b]
              /\ \A k \in DOMAIN new \ DOMAIN old :
                    /\ k = current_user_id[b] /\ current_user_id'[b] = k + 1
                    /\ reply'.op = "register" /\ reply'.status = 200 /\ reply'.id = k
                    /\ \A i \in DOMAIN old :
                          old[i].email # new[k].email /\ old[i].username # new[k].username
              /\ \A i \in DOMAIN old : i \in DOMAIN new /\ new[i] = old[i]
              /\ \A i, j \in DOMAIN new :
                    (new[i].email = new[j].email \/ new[i].username = new[j].username)
                        => i = j
              /\ \A i \in DOMAIN new : new[i].id = i /\ i < current_user_id'[b]
      ]_vars

C20_Witness ==
    /\ reply.op = "register" /\ reply.backend = "simple_backend" /\ reply.status = 400
    /\ DOMAIN users_db["simple_backend"] = {1, 2}
    /\ users_db["simple_backend"][1].username = "bob"
    /\ users_db["simple_backend"][2].username = "ann"
    /\ current_user_id["simple_backend"] = 3
    /\ DOMAIN users_db["llm_backend"] = {1}

(***************************************************************************)
(* Properties of the payment flow.                                         *)
(***************************************************************************)
PaymentsOfIntent(intent_id) ==
    {p \in DOMAIN payments : payments[p].stripe_payment_intent_id = intent_id}

HandledWebhook(r, event_type) ==
    /\ r.op = "stripe_webhook" /\ r.status = 200
    /\ r.type = event_type

\* C8: a created payment intent leaves a pending Payment linked to the
\* requesting user; a payment_intent.succeeded webhook for its intent id sets
\* that Payment to "succeeded" and its user's is_premium to true; a
\* payment_intent.payment_failed webhook sets it to "failed" and changes no
\* user's is_premium.
C8_PaymentRoundTrip ==
    [][/\ (reply'.op = "create_payment_intent" /\ reply'.status = 200) =>
            /\ Len(payments') = Len(payments) + 1
            /\ Last(payments').status = "pending"
            /\ Last(payments').user_id = reply'.user
            /\ Last(payments').stripe_payment_intent_id = reply'.payment_intent_id
            /\ PaymentsOfIntent(reply'.payment_intent_id) = {}
       /\ HandledWebhook(reply', "payment_intent.succeeded") =>
            \A p \in PaymentsOfIntent(reply'.intent) :
                /\ payments'[p].status = "succeeded"
                /\ users'[payments[p].user_id].is_premium
       /\ HandledWebhook(reply', "payment_intent.payment_failed") =>
            /\ \A p \in PaymentsOfIntent(reply'.intent) : payments'[p].status = "failed"
            /\ \A u \in DOMAIN users : users'[u].is_premium = users[u].is_premium
      ]_vars

C8_Witness ==
    /\ Len(users) = 2 /\ Len(payments) = 1
    /\ HandledWebhook(reply, "payment_intent.succeeded") /\ reply.intent = 1
    /\ payments[1].status = "succeeded" /\ payments[1].user_id = 2
    /\ users[2].is_premium /\ users[2].subscription_id = <<1>>
    /\ ~users[1].is_premium

\* C9 as stated: a Payment's status only moves from "pending" to
\* "succeeded" or "failed", and a status of "succeeded" or "failed" never
\* changes again.
C9_Original ==
    [][\A p \in DOMAIN payments :
          payments'[p].status # payments[p].status =>
              /\ payments[p].status = "pending"
              /\ payments'[p].status \in {"succeeded", "failed"}
      ]_vars

\* C16: a webhook request whose payload is malformed or whose signature
\* fails verification is answered with status 400 and the matching detail,
\* and changes no Payment and no User.
C16_RejectedWebhook ==
    [][(reply'.op = "stripe_webhook" /\ reply'.status # 200) =>
          /\ reply'.status = 400
          /\ reply'.detail \in {"Invalid payload", "Invalid signature"}
          /\ payments' = payments
          /\ users' = users
      ]_vars

C16_Witness ==
    /\ reply.op = "stripe_webhook" /\ reply.status = 400
    /\ reply.detail = "Invalid signature"
    /\ Len(payments) = 1 /\ payments[1].status = "pending"
    /\ ~users[payments[1].user_id].is_premium

\* C10: a user's is_premium becomes true only in a step that handles a
\* payment_intent.succeeded webhook naming a Payment linked to that user.
C10_PremiumOnlyByPayment ==
    [][\A u \in DOMAIN users' :
          (users'[u].is_premium /\ (u \notin DOMAIN users \/ ~users[u].is_premium)) =>
              /\ HandledWebhook(reply', "payment_intent.succeeded")
              /\ \E p \in PaymentsOfIntent(reply'.intent) : payments[p].user_id = u
      ]_vars

C10_Witness ==
    /\ Len(users) = 2
    /\ users[1].is_premium /\ users[1].full_name = <<"Ann">> /\ ~users[1].is_active
    /\ ~users[2].is_premium
    /\ reply.op = "update_user_profile" /\ reply.status = 400

====
